---- MODULE Spec2Model ----
(***************************************************************************)
(* A model of flopy/utils/util_array.py: ArrayFormat, Util2d, Util3d and   *)
(* Transient2d.                                                            *)
(*                                                                         *)
(* Conventions                                                             *)
(*   - text is a sequence of one-character strings;                        *)
(*   - a number is a normalised rational <<n, d>> (d > 0); an int value is *)
(*     <<n, 1>>.  The values of the model are small dyadic rationals, all  *)
(*     exactly representable as float32, so float rounding is not modelled;*)
(*   - an optional value is None (<<>>) or Some(x) (<<x>>); a raised       *)
(*     exception is a result record whose field ok is FALSE.               *)
(***************************************************************************)
EXTENDS Integers, Sequences, FiniteSets, TLC

\* Python's None for an optional value: the empty tuple; Some(x) is <<x>>
None == <<>>

Some(x) == <<x>>

Get(o) == o[1]

\* a local name for a value: Body applied to x
With(x, Body(_)) == Body(x)

With2(x, y, Body(_, _)) == Body(x, y)

----------------------------------------------------------------------------
(* Rational arithmetic                                                     *)

Abs(n) == IF n < 0 THEN -n ELSE n

RECURSIVE GCD(_, _)
GCD(a, b) == IF b = 0 THEN a ELSE GCD(b, a % b)

Rat(n, d) ==
    IF n = 0 THEN <<0, 1>>
    ELSE With2(GCD(Abs(n), Abs(d)), IF d < 0 THEN -1 ELSE 1, LAMBDA g, s :
             <<(s * n) \div g, (s * d) \div g>>)

R(n) == <<n, 1>>

RMul(x, y) == Rat(x[1] * y[1], x[2] * y[2])

RNeg(x) == <<-x[1], x[2]>>

RAbs(x) == <<Abs(x[1]), x[2]>>

RLt(x, y) == x[1] * y[2] < y[1] * x[2]

RIsInt(x) == x[2] = 1

\* truncation toward zero, as ndarray.astype(int) and int(float) do
RTrunc(x) == IF x[1] >= 0 THEN x[1] \div x[2] ELSE -((-x[1]) \div x[2])

RECURSIVE Pow10(_)
Pow10(k) == IF k = 0 THEN 1 ELSE 10 * Pow10(k - 1)

\* x * 10^k for an integer k of either sign
RScale10(x, k) == IF k >= 0 THEN Rat(x[1] * Pow10(k), x[2])
                  ELSE Rat(x[1], x[2] * Pow10(-k))

\* the integer nearest to the non-negative rational x, ties to even: the
\* rounding of Python's float formatting on an exactly represented value
RoundHalfEven(x) ==
    With2(x[1] \div x[2], x[1] % x[2], LAMBDA q, r :
        IF 2 * r < x[2] THEN q
        ELSE IF 2 * r > x[2] THEN q + 1
        ELSE IF q % 2 = 0 THEN q ELSE q + 1)

----------------------------------------------------------------------------
(* Characters and text                                                     *)

DigitChars == <<"0", "1", "2", "3", "4", "5", "6", "7", "8", "9">>

UpperChars == <<"A", "B", "C", "D", "E", "F", "G", "H", "I", "J", "K", "L", "M",
                "N", "O", "P", "Q", "R", "S", "T", "U", "V", "W", "X", "Y", "Z">>

LowerChars == <<"a", "b", "c", "d", "e", "f", "g", "h", "i", "j", "k", "l", "m",
                "n", "o", "p", "q", "r", "s", "t", "u", "v", "w", "x", "y", "z">>

IsDigit(c) == \E i \in 1..10 : DigitChars[i] = c

DigitVal(c) == (CHOOSE i \in 1..10 : DigitChars[i] = c) - 1

IsSpace(c) == c \in {" ", "\n", "\t"}

\* str.lower() and str.upper() on one character
LowerChar(c) == IF \E i \in 1..26 : UpperChars[i] = c
                THEN LowerChars[CHOOSE i \in 1..26 : UpperChars[i] = c]
                ELSE c

UpperChar(c) == IF \E i \in 1..26 : LowerChars[i] = c
                THEN UpperChars[CHOOSE i \in 1..26 : LowerChars[i] = c]
                ELSE c

Lower(s) == [i \in 1..Len(s) |-> LowerChar(s[i])]

Upper(s) == [i \in 1..Len(s) |-> UpperChar(s[i])]

Spaces(n) == [i \in 1..n |-> " "]

\* Python's s[a:b] with 0 <= a, clipped to the text (0-based, b exclusive)
Slice(s, a, b) ==
    With(IF b > Len(s) THEN Len(s) ELSE b, LAMBDA hi :
        IF a >= hi THEN <<>> ELSE SubSeq(s, a + 1, hi))

\* the positions of the characters of s that are no whitespace
NonSpace(s) == {i \in 1..Len(s) : ~IsSpace(s[i])}

LStrip(s) ==
    With(NonSpace(s), LAMBDA ns :
        IF ns = {} THEN <<>>
        ELSE SubSeq(s, CHOOSE i \in ns : \A j \in ns : i <= j, Len(s)))

RStrip(s) ==
    IF NonSpace(s) = {} THEN <<>>
    ELSE SubSeq(s, 1, CHOOSE i \in NonSpace(s) : \A j \in NonSpace(s) : j <= i)

\* str.strip()
Strip(s) == RStrip(LStrip(s))

\* the positions where a maximal run of non-whitespace characters starts
TokenStarts(s) == {i \in NonSpace(s) : i = 1 \/ IsSpace(s[i - 1])}

\* the maximal run of non-whitespace characters that starts at position i
TokenAt(s, i) ==
    SubSeq(s, i, CHOOSE e \in i..Len(s) :
                     /\ \A j \in i..e : ~IsSpace(s[j])
                     /\ (e = Len(s) \/ IsSpace(s[e + 1])))

\* str.split(): the maximal runs of non-whitespace characters, in order
Split(s) ==
    With(TokenStarts(s), LAMBDA st :
        [k \in 1..Cardinality(st) |->
            TokenAt(s, CHOOSE i \in st : Cardinality({j \in st : j < i}) = k - 1)])

\* `sub in s` for two texts
Contains(s, sub) ==
    \E i \in 0..(Len(s) - Len(sub)) : Slice(s, i, i + Len(sub)) = sub

\* s.replace(c, '') for a single character c
RemoveChar(s, c) == SelectSeq(s, LAMBDA x : x # c)

\* the position of the first c in s, 0 when there is none
FirstIndex(s, c) ==
    IF \E i \in 1..Len(s) : s[i] = c
    THEN CHOOSE i \in 1..Len(s) : s[i] = c /\ \A j \in 1..(i - 1) : s[j] # c
    ELSE 0

\* format specs '>N' and '<N' on a text: pad, never truncate
RJust(s, w) == IF Len(s) >= w THEN s ELSE Spaces(w - Len(s)) \o s

LJust(s, w) == IF Len(s) >= w THEN s ELSE s \o Spaces(w - Len(s))

RECURSIVE NatStr(_)
NatStr(n) == IF n < 10 THEN <<DigitChars[n + 1]>>
             ELSE NatStr(n \div 10) \o <<DigitChars[(n % 10) + 1]>>

\* str(n) for an integer
IntStr(n) == IF n < 0 THEN <<"-">> \o NatStr(-n) ELSE NatStr(n)

\* n written with exactly k digits (leading zeros), k = 0 gives the empty text
RECURSIVE ZeroPad(_, _)
ZeroPad(n, k) == IF k = 0 THEN <<>>
                 ELSE ZeroPad(n \div 10, k - 1) \o <<DigitChars[(n % 10) + 1]>>

RECURSIVE StripZeros(_)
StripZeros(s) == IF s # <<>> /\ s[Len(s)] = "0"
                 THEN StripZeros(SubSeq(s, 1, Len(s) - 1)) ELSE s

----------------------------------------------------------------------------
(* Python number formatting ('{0:W.DF}'.format(v)) and parsing (float(s),  *)
(* int(s)), used by ArrayFormat.py, the control records and load_txt       *)

Ok(t) == [ok |-> TRUE, text |-> t]

Fail == [ok |-> FALSE, text |-> <<>>]

\* x >= 10^e for a positive rational x
Ge10(x, e) == IF e >= 0 THEN x[1] >= Pow10(e) * x[2]
              ELSE x[1] >= x[2] \/ x[1] * Pow10(-e) >= x[2]

\* the decimal exponent of a positive rational: 10^e <= x < 10^(e+1)
Exp10Of(x) == CHOOSE e \in -6..6 : Ge10(x, e) /\ ~Ge10(x, e + 1)

Sign(x) == IF x[1] < 0 THEN <<"-">> ELSE <<>>

\* the digits of m read as a number with k decimals
FixedDigits(m, k) ==
    NatStr(m \div Pow10(k)) \o (IF k > 0 THEN <<".">> \o ZeroPad(m % Pow10(k), k) ELSE <<>>)

\* presentation type 'F' with precision k
FmtF(x, k) == Sign(x) \o FixedDigits(RoundHalfEven(RScale10(RAbs(x), k)), k)

\* <<mantissa digits as an integer, exponent>> of x rounded to k decimals of
\* mantissa
SciParts(x, k) ==
    IF x[1] = 0 THEN <<0, 0>>
    ELSE With(Exp10Of(RAbs(x)), LAMBDA e :
         With(RoundHalfEven(RScale10(RAbs(x), k - e)), LAMBDA m :
             IF m >= Pow10(k + 1) THEN <<m \div 10, e + 1>> ELSE <<m, e>>))

ExpText(e) == <<"E", IF e < 0 THEN "-" ELSE "+">> \o ZeroPad(Abs(e), 2)

\* presentation type 'E' with precision k
FmtE(x, k) ==
    With(SciParts(x, k), LAMBDA p : Sign(x) \o FixedDigits(p[1], k) \o ExpText(p[2]))

\* trailing zeros and a trailing point removed, as 'G' does
Trim(t) ==
    IF FirstIndex(t, ".") = 0 THEN t
    ELSE With(StripZeros(t), LAMBDA z :
             IF z[Len(z)] = "." THEN SubSeq(z, 1, Len(z) - 1) ELSE z)

\* presentation type 'G' with precision p
FmtG(x, p) ==
    With(IF p = 0 THEN 1 ELSE p, LAMBDA P :
    With(SciParts(x, P - 1), LAMBDA s :
        IF -4 <= s[2] /\ s[2] < P THEN Trim(FmtF(x, P - 1 - s[2]))
        ELSE Sign(x) \o Trim(FixedDigits(s[1], P - 1)) \o ExpText(s[2])))

\* '{0:<width><code>}' or '{0:<width>.<decimal><code>}' applied to a value of
\* an int or float32 array; code is the ArrayFormat letter (I is written d).
\* 'd' takes no precision and no float; F, E and G default to precision 6.
PyFormat(x, isfloat, code, width, decimal) ==
    With(IF decimal = None THEN 6 ELSE Get(decimal), LAMBDA k :
        CASE code = "I" ->
               IF decimal # None \/ isfloat THEN Fail ELSE Ok(RJust(IntStr(x[1]), width))
          [] code = "F" -> Ok(RJust(FmtF(x, k), width))
          [] code = "E" -> Ok(RJust(FmtE(x, k), width))
          [] code = "G" -> Ok(RJust(FmtG(x, k), width))
          [] OTHER -> Fail)

RECURSIVE DigitRun(_)
\* the length of the longest prefix of s made of digits
DigitRun(s) == IF s # <<>> /\ IsDigit(Head(s)) THEN 1 + DigitRun(Tail(s)) ELSE 0

RECURSIVE DigitsVal(_)
DigitsVal(ds) == IF ds = <<>> THEN 0
                 ELSE 10 * DigitsVal(SubSeq(ds, 1, Len(ds) - 1)) + DigitVal(ds[Len(ds)])

NoNum == [ok |-> FALSE, v |-> <<0, 1>>]

Num(x) == [ok |-> TRUE, v |-> x]

\* an optional sign: <<sign factor, rest>>
TakeSign(s) == IF s # <<>> /\ Head(s) = "-" THEN <<-1, Tail(s)>>
               ELSE IF s # <<>> /\ Head(s) = "+" THEN <<1, Tail(s)>>
               ELSE <<1, s>>

\* the number of a sign, digits of which the last nf are fraction digits,
\* and what follows them: nothing, or an exponent
ParseExponent(sign, digits, nf, d) ==
    IF digits = <<>> THEN NoNum
    ELSE IF d = <<>> THEN Num(RScale10(R(sign * DigitsVal(digits)), -nf))
    ELSE IF Head(d) \in {"e", "E"}
    THEN With(TakeSign(Tail(d)), LAMBDA es :
             IF es[2] # <<>> /\ DigitRun(es[2]) = Len(es[2])
             THEN Num(RScale10(R(sign * DigitsVal(digits)),
                               es[1] * DigitsVal(es[2]) - nf))
             ELSE NoNum)
    ELSE NoNum

\* int(s): surrounding whitespace, an optional sign, digits
ParseInt(s) ==
    With(TakeSign(Strip(s)), LAMBDA t :
        IF t[2] # <<>> /\ DigitRun(t[2]) = Len(t[2]) THEN Num(R(t[1] * DigitsVal(t[2])))
        ELSE NoNum)

\* float(s) and np.float32(s): surrounding whitespace, an optional sign,
\* digits with an optional fraction, an optional exponent
ParseFloat(s) ==
    With(TakeSign(Strip(s)), LAMBDA t :
    With(DigitRun(t[2]), LAMBDA ni :
    \* ip is the integer digits and b what follows them
    With2(SubSeq(t[2], 1, ni), SubSeq(t[2], ni + 1, Len(t[2])), LAMBDA ip, b :
    With(IF b # <<>> /\ Head(b) = "." THEN DigitRun(Tail(b)) ELSE 0, LAMBDA nf :
        IF b # <<>> /\ Head(b) = "."
        THEN ParseExponent(t[1], ip \o SubSeq(b, 2, nf + 1), nf,
                           SubSeq(b, nf + 2, Len(b)))
        ELSE ParseExponent(t[1], ip, 0, b)))))

----------------------------------------------------------------------------
(* ArrayFormat                                                             *)

default_float_width == 15

default_int_width == 10

default_float_decimal == 6

\* s.split(c) for a single character c
RECURSIVE SplitOn(_, _)
SplitOn(s, c) ==
    With(FirstIndex(s, c), LAMBDA i :
        IF i = 0 THEN <<s>>
        ELSE <<SubSeq(s, 1, i - 1)>> \o SplitOn(SubSeq(s, i + 1, Len(s)), c))

NoDescriptor == [ok |-> FALSE, kind |-> "error", npl |-> 0, fmt |-> "", width |-> 0,
                 decimal |-> None]

\* the first of I, G, E, F that occurs in raw, "" when none does
FirstCode(raw) ==
    IF Contains(raw, <<"I">>) THEN "I"
    ELSE IF Contains(raw, <<"G">>) THEN "G"
    ELSE IF Contains(raw, <<"E">>) THEN "E"
    ELSE IF Contains(raw, <<"F">>) THEN "F"
    ELSE ""

\* ArrayFormat.decode_fortran_descriptor: kind "free" and "binary" are the
\* returned sentinels 'free' and 'binary', kind "fixed" carries npl, fmt,
\* width and decimal, ok = FALSE is a raised exception
\* the tail of decode_fortran_descriptor: raw is the upper-case text before
\* the point, decimal None or Some(n)
DecodeRaw(raw, decimal) ==
    With(FirstCode(raw), LAMBDA code :
        IF code = "" THEN NoDescriptor
        ELSE With(SplitOn(raw, code), LAMBDA pieces :
             With2(ParseInt(pieces[1]), ParseInt(pieces[2]), LAMBDA n, w :
                 IF ~w.ok THEN NoDescriptor
                 ELSE [ok |-> TRUE, kind |-> "fixed",
                       npl |-> IF n.ok THEN n.v[1] ELSE 1,
                       fmt |-> IF code = "G" THEN "E" ELSE code,
                       width |-> w.v[1], decimal |-> decimal])))

decode_fortran_descriptor(fd) ==
    With(Strip(RemoveChar(RemoveChar(fd, "'"), "\"")), LAMBDA st :
    With(Slice(st, 1, Len(st) - 1), LAMBDA inner :
    With(Upper(inner), LAMBDA up :
        IF Contains(up, <<"F", "R", "E", "E">>)
        THEN [NoDescriptor EXCEPT !.ok = TRUE, !.kind = "free"]
        ELSE IF Contains(up, <<"B", "I", "N", "A", "R", "Y">>)
        THEN [NoDescriptor EXCEPT !.ok = TRUE, !.kind = "binary"]
        ELSE With(IF FirstIndex(inner, ".") # 0 THEN SplitOn(inner, ".") ELSE <<up>>,
                  LAMBDA parts :
             With(IF Len(parts) > 1 THEN ParseInt(parts[2]) ELSE NoNum, LAMBDA dec :
                 IF Len(parts) = 1 THEN DecodeRaw(up, None)
                 ELSE IF ~dec.ok THEN NoDescriptor
                 ELSE DecodeRaw(Upper(parts[1]), Some(dec.v[1])))))))

IsIntDtype(dtype) == dtype = "int"

\* ArrayFormat._set_defaults
_set_defaults(af) ==
    IF IsIntDtype(af.dtype)
    THEN [af EXCEPT !.npl = af.npl_full, !.format = "I",
                    !.width = default_int_width, !.decimal = None]
    ELSE [af EXCEPT !.npl = af.npl_full, !.format = "G",
                    !.width = default_float_width,
                    !.decimal = Some(default_float_decimal)]

\* the attributes ArrayFormat.__init__ sets before it parses or defaults
BlankFormat(shape, dtype) ==
    [npl_full |-> shape[Len(shape)], dtype |-> dtype, npl |-> 0, format |-> "",
     width |-> 0, decimal |-> None, isbinary |-> FALSE, isfree |-> FALSE]

\* ArrayFormat._parse_fortran_format: [ok, af]
_parse_fortran_format(af, arg) ==
    With(decode_fortran_descriptor(arg), LAMBDA d :
        IF ~d.ok THEN [ok |-> FALSE, af |-> af]
        ELSE IF d.kind = "free"
        THEN [ok |-> TRUE, af |-> [_set_defaults(af) EXCEPT !.isfree = TRUE]]
        ELSE IF d.kind = "binary"
        THEN [ok |-> TRUE, af |-> [_set_defaults(af) EXCEPT !.isbinary = TRUE]]
        ELSE [ok |-> TRUE,
              af |-> [af EXCEPT !.npl = d.npl, !.format = d.fmt, !.width = d.width,
                                !.decimal = IF d.decimal # None THEN d.decimal ELSE @]])

\* ArrayFormat(u2d, fortran=fmtin): fmtin is None or Some(text)
ArrayFormat__init__(shape, dtype, fmtin) ==
    IF fmtin = None
    THEN [ok |-> TRUE, af |-> _set_defaults(BlankFormat(shape, dtype))]
    ELSE _parse_fortran_format(BlankFormat(shape, dtype), Get(fmtin))

\* ArrayFormat.__setattr__, key "binary"
SetBinary(af, value) ==
    _set_defaults([af EXCEPT !.isfree = IF value /\ af.isfree THEN FALSE ELSE @,
                            !.isbinary = value])

\* ArrayFormat.__setattr__, key "free"
SetFree(af, value) ==
    _set_defaults([af EXCEPT !.isbinary = IF value /\ af.isbinary THEN FALSE ELSE @,
                            !.isfree = value])

\* ArrayFormat._get_fortran_format (the property fortran)
_get_fortran_format(af) ==
    IF af.isfree THEN <<"(", "F", "R", "E", "E", ")">>
    ELSE IF af.isbinary THEN <<"(", "B", "I", "N", "A", "R", "Y", ")">>
    ELSE <<"(">> \o IntStr(af.npl) \o <<af.format>> \o IntStr(af.width)
         \o (IF af.decimal # None THEN <<".">> \o IntStr(Get(af.decimal)) ELSE <<>>)
         \o <<")">>

\* ArrayFormat._get_python_format (the property py): the items per line and
\* the pattern, the pattern kept as its code, width and decimal
_get_python_format(af) ==
    [npl |-> af.npl, code |-> af.format, width |-> af.width, decimal |-> af.decimal]

----------------------------------------------------------------------------
(* Values, arrays and the heap                                             *)
(*                                                                         *)
(* An ndarray is a heap object [dtype, data], data a sequence of rows; a   *)
(* grid holds the reference (the index in the heap) of its array, so that  *)
(* two grids built from the same ndarray share it, as in Python.           *)
(* An argument passed as `value` is a record                               *)
(*   [kind, num, text, ref]  with kind one of                              *)
(*   "bool", "str", "int", "float", "list", "ndarray", "dict", "other";    *)
(* num is the number of a scalar, text the characters of a str, ref the    *)
(* heap reference of an ndarray (or of the ndarray np.array(list) makes).  *)

NoText == <<>>

ScalarArg(kind, x) == [kind |-> kind, num |-> x, text |-> NoText, ref |-> 0]

StrArg(t) == [kind |-> "str", num |-> R(0), text |-> t, ref |-> 0]

ArrayArg(ref) == [kind |-> "ndarray", num |-> R(0), text |-> NoText, ref |-> ref]

ListArg(ref) == [kind |-> "list", num |-> R(0), text |-> NoText, ref |-> ref]

OtherArg == [kind |-> "other", num |-> R(0), text |-> NoText, ref |-> 0]

NDArray(dtype, data) == [dtype |-> dtype, data |-> data]

ShapeOf(a) == IF a.data = <<>> THEN <<0>> ELSE <<Len(a.data), Len(a.data[1])>>

\* one element cast to dtype: astype(int) truncates toward zero
CastNum(dtype, x) == IF IsIntDtype(dtype) THEN R(RTrunc(x)) ELSE x

\* ndarray.astype(dtype) on the data
AsType(dtype, data) ==
    [i \in 1..Len(data) |-> [j \in 1..Len(data[i]) |-> CastNum(dtype, data[i][j])]]

\* np.ones(shape, dtype) * x
Full(shape, x) == [i \in 1..shape[1] |-> [j \in 1..shape[2] |-> x]]

\* np.atleast_2d on one row of a 2-D array
AtLeast2d(row) == <<row>>

\* the elements of the data in row-major order
RECURSIVE Flatten(_)
Flatten(data) == IF data = <<>> THEN <<>> ELSE Head(data) \o Flatten(Tail(data))

\* np.unique: the set of distinct elements
Unique(data) == {data[i][j] : i \in 1..Len(data), j \in 1..Len(data[1])}

----------------------------------------------------------------------------
(* Util2d                                                                  *)

ScalarVtypes == {"int", "np.float32", "float", "bool"}

\* the fields of a grid; scalar, ref and path hold the value __value of
\* vtype int/np.float32/float/bool, ndarray and str respectively
BlankU2d ==
    [shape |-> <<0, 0>>, dtype |-> "", name |-> NoText, locat |-> None,
     vtype |-> "", scalar |-> R(0), ref |-> 0, path |-> NoText,
     value_built |-> None, cnstnt |-> R(1), iprn |-> -1,
     format |-> BlankFormat(<<0, 0>>, ""), ext_filename |-> None,
     ext_filename_default |-> NoText, how |-> ""]

\* A file system is a function from normalised paths to file contents
\* [bin, text, dtype, data]: text the characters of a text file, dtype and
\* data the element type and rows of a binary dump.  Two path strings name the same file when they normalise
\* to the same path (a leading "./" is dropped).
RECURSIVE NormPath(_)
NormPath(path) ==
    IF Len(path) >= 2 /\ path[1] = "." /\ path[2] = "/"
    THEN NormPath(SubSeq(path, 3, Len(path))) ELSE path

\* os.path.exists
Exists(fs, path) == NormPath(path) \in DOMAIN fs

TextFile(t) == [bin |-> FALSE, text |-> t, dtype |-> "", data |-> <<>>]

BinFile(dtype, data) == [bin |-> TRUE, text |-> <<>>, dtype |-> dtype, data |-> data]

\* the file system with path holding content
WriteFile(fs, path, content) ==
    [q \in DOMAIN fs \cup {NormPath(path)} |->
        IF q = NormPath(path) THEN content ELSE fs[q]]

\* os.remove
RemoveFile(fs, path) == [q \in DOMAIN fs \ {NormPath(path)} |-> fs[q]]

\* Util2d.parse_value: [ok, u, heap]
parse_value(u, value, heap, fs) ==
    LET bad == [ok |-> FALSE, u |-> u, heap |-> heap]
        good(v) == [ok |-> TRUE, u |-> v, heap |-> heap]
        parsed(vtype, n) ==
            IF n.ok THEN good([u EXCEPT !.vtype = vtype, !.scalar = n.v]) ELSE bad
        \* heap[value.ref] holds the elements of a list too: np.array(list)
        \* is a new ndarray, so a list is never shared with the grid
        arr == heap[value.ref]
    IN  CASE value.kind = "bool" ->
               IF u.dtype = "bool"
               THEN good([u EXCEPT !.vtype = "bool", !.scalar = value.num])
               ELSE bad
          [] value.kind = "str" ->
               IF Exists(fs, value.text)
               THEN good([u EXCEPT !.vtype = "str", !.path = value.text])
               ELSE IF u.dtype = "int"
               THEN parsed("int", ParseInt(value.text))
               ELSE parsed("float", ParseFloat(value.text))
          [] value.kind \in {"int", "float"} ->
               IF u.dtype = "int"
               THEN good([u EXCEPT !.vtype = "int", !.scalar = R(RTrunc(value.num))])
               ELSE IF u.dtype = "float32"
               THEN good([u EXCEPT !.vtype = "np.float32", !.scalar = value.num])
               ELSE good(u)
          [] value.kind \in {"list", "ndarray"} ->
               IF u.shape # ShapeOf(arr) THEN bad
               ELSE IF u.dtype # arr.dtype \/ value.kind = "list"
               THEN [ok |-> TRUE,
                     u |-> [u EXCEPT !.vtype = "ndarray", !.ref = Len(heap) + 1],
                     heap |-> Append(heap, NDArray(u.dtype, AsType(u.dtype, arr.data)))]
               ELSE good([u EXCEPT !.vtype = "ndarray", !.ref = value.ref])
          [] OTHER -> bad

\* Util2d._decide_how
_decide_how(u, m) ==
    IF u.vtype \in {"int", "np.float32"} THEN "constant"
    ELSE IF m.external_path # None \/ u.vtype = "str"
    THEN (IF m.free_format THEN "openclose" ELSE "external")
    ELSE "internal"

acceptable_hows == {"constant", "internal", "external", "openclose"}

\* name.replace(' ', '_')
Underscored(t) == [i \in 1..Len(t) |-> IF t[i] = " " THEN "_" ELSE t[i]]

DotRef == <<".", "r", "e", "f">>

\* the arguments of Util2d.__init__ with their defaults; fmtin, ext_filename,
\* locat and how are None or Some(x)
U2dArgs(shape, dtype, value, name) ==
    [shape |-> shape, dtype |-> dtype, value |-> value, name |-> name,
     fmtin |-> None, cnstnt |-> R(1), iprn |-> -1, ext_filename |-> None,
     locat |-> None, bin |-> FALSE, how |-> None]

\* Util2d.__init__ for a value that is no Util2d: [ok, u, heap]
Util2d__init__(m, a, heap, fs) ==
    With([BlankU2d EXCEPT !.shape = a.shape, !.dtype = a.dtype,
                          !.name = Lower(a.name), !.locat = a.locat], LAMBDA u0 :
    With2(parse_value(u0, a.value, heap, fs),
          ArrayFormat__init__(a.shape, a.dtype, a.fmtin), LAMBDA pv, fm :
        IF ~pv.ok \/ ~fm.ok \/ a.dtype \notin {"int", "float32", "bool"}
        THEN [ok |-> FALSE, u |-> u0, heap |-> heap]
        ELSE With([pv.u EXCEPT
                      !.cnstnt = a.cnstnt, !.iprn = a.iprn,
                      !.format = SetBinary(fm.af, a.bin),
                      !.ext_filename = IF a.ext_filename = None THEN None
                                       ELSE Some(Lower(Get(a.ext_filename))),
                      !.ext_filename_default = Underscored(Lower(a.name)) \o DotRef],
                  LAMBDA u1 :
                 IF a.how # None
                 THEN IF Get(a.how) \in acceptable_hows
                      THEN [ok |-> TRUE, u |-> [u1 EXCEPT !.how = Get(a.how)],
                            heap |-> pv.heap]
                      ELSE [ok |-> FALSE, u |-> u0, heap |-> heap]
                 ELSE IF u1.vtype = "" THEN [ok |-> FALSE, u |-> u0, heap |-> heap]
                 ELSE [ok |-> TRUE, u |-> [u1 EXCEPT !.how = _decide_how(u1, m)],
                       heap |-> pv.heap])))

----------------------------------------------------------------------------
(* Text decoding and encoding                                              *)

\* file.readline(): <<the line with its line break, the rest of the stream>>
ReadLine(stream) ==
    With(FirstIndex(stream, "\n"), LAMBDA i :
        IF i = 0 THEN <<stream, <<>>>>
        ELSE <<SubSeq(stream, 1, i), SubSeq(stream, i + 1, Len(stream))>>)

\* the fields of a line taken at its blanks, whatever the width
FieldsAtBlanks(line, istart, width, n) == Split(line)

\* the fixed-width fields of a line: consecutive width-sized slices, at most
\* n of them, up to the first blank one
RECURSIVE Fields(_, _, _, _)
Fields(line, istart, width, n) ==
    IF n <= 0 THEN <<>>
    ELSE With(Slice(line, istart, istart + width), LAMBDA txtval :
             IF Strip(txtval) = <<>> THEN <<>>
             ELSE <<txtval>> \o Fields(line, istart + width, width, n - 1))

\* dtype(a) for a token a
ParseAs(dtype, a) == IF IsIntDtype(dtype) THEN ParseInt(a) ELSE ParseFloat(a)

\* the loop `for a in raw` of load_txt: status "full" when the last element
\* was filled (the function returns), "more" when the tokens ran out first
RECURSIVE FillTokens(_, _, _, _)
FillTokens(raw, filled, total, dtype) ==
    IF raw = <<>> THEN [status |-> "more", filled |-> filled]
    ELSE With(ParseAs(dtype, Head(raw)), LAMBDA v :
             IF ~v.ok THEN [status |-> "error", filled |-> filled]
             ELSE IF Len(filled) = total - 1
             THEN [status |-> "full", filled |-> Append(filled, v.v)]
             ELSE FillTokens(Tail(raw), Append(filled, v.v), total, dtype))

\* data.resize(nrow, ncol) of a flat sequence
Reshape(flat, nrow, ncol) ==
    [i \in 1..nrow |-> [j \in 1..ncol |-> flat[(i - 1) * ncol + j]]]

NoLoad == [ok |-> FALSE, data |-> <<>>, rest |-> <<>>]

\* a loop that reads every line to the end of the stream and keeps the
\* first elements
RECURSIVE LoadLinesToEnd(_, _, _, _, _)
LoadLinesToEnd(stream, filled, shape, dtype, d) ==
    With2(ReadLine(stream), shape[1] * shape[2], LAMBDA rl, total :
        IF rl[1] = <<>>
        THEN IF Len(filled) < total THEN NoLoad
             ELSE [ok |-> TRUE,
                   data |-> Reshape(SubSeq(filled, 1, total), shape[1], shape[2]),
                   rest |-> <<>>]
        ELSE With(FillTokens(IF d.kind = "free" THEN Split(rl[1])
                             ELSE Fields(rl[1], 0, d.width, d.npl),
                             filled, 0, dtype), LAMBDA ft :
                 IF ft.status = "error" THEN NoLoad
                 ELSE LoadLinesToEnd(rl[2], ft.filled, shape, dtype, d)))

\* the loop `while True` of load_txt
RECURSIVE LoadLines(_, _, _, _, _)
LoadLines(stream, filled, shape, dtype, d) ==
    With2(ReadLine(stream), shape[1] * shape[2], LAMBDA rl, total :
        IF rl[1] = <<>> \/ Len(filled) = total
        THEN \* end of file (or nothing to read): unfilled elements are NaN
             IF Len(filled) < total THEN NoLoad
             ELSE [ok |-> TRUE, data |-> Reshape(filled, shape[1], shape[2]),
                   rest |-> rl[2]]
        ELSE With(FillTokens(IF d.kind = "free" THEN Split(rl[1])
                             ELSE Fields(rl[1], 0, d.width, d.npl),
                             filled, total, dtype), LAMBDA ft :
                 IF ft.status = "error" THEN NoLoad
                 ELSE IF ft.status = "full"
                 THEN [ok |-> TRUE, data |-> Reshape(ft.filled, shape[1], shape[2]),
                       rest |-> rl[2]]
                 ELSE LoadLines(rl[2], ft.filled, shape, dtype, d)))

\* Util2d.load_txt: [ok, data, rest], rest the unread part of the stream
load_txt(shape, stream, dtype, fmtin) ==
    With(decode_fortran_descriptor(fmtin), LAMBDA d :
        IF ~d.ok \/ d.kind = "binary" THEN NoLoad
        ELSE LoadLines(stream, <<>>, shape, dtype, d))

\* one row of array2string: the values of row i from column j on
RECURSIVE RowText(_, _, _, _, _)
RowText(row, j, ncol, isfloat, pf) ==
    IF j > ncol THEN Ok(<<>>)
    ELSE With2(PyFormat(row[j], isfloat, pf.code, pf.width, pf.decimal),
               RowText(row, j + 1, ncol, isfloat, pf), LAMBDA v, more :
             IF ~v.ok \/ ~more.ok THEN Fail
             ELSE Ok(v.text
                     \o (IF j % pf.npl = 0 /\ (j # 1 \/ ncol = 1) THEN <<"\n">> ELSE <<>>)
                     \o more.text))

RECURSIVE RowsText(_, _, _, _, _)
RowsText(data, i, shape, isfloat, pf) ==
    IF i > shape[1] THEN Ok(<<>>)
    ELSE With2(RowText(data[i], 1, shape[2], isfloat, pf),
               RowsText(data, i + 1, shape, isfloat, pf), LAMBDA r, more :
             IF ~r.ok \/ ~more.ok THEN Fail
             ELSE Ok(r.text \o (IF shape[2] % pf.npl # 0 THEN <<"\n">> ELSE <<>>)
                     \o more.text))

\* Util2d.array2string(shape, data, python_format=pf) for an array of the
\* given dtype: [ok, text]
array2string(shape, data, dtype, pf) ==
    IF pf.npl = 0 THEN Fail
    ELSE RowsText(data, 1, shape, ~IsIntDtype(dtype), pf)

----------------------------------------------------------------------------
(* Util2d: materialization and item assignment                             *)

NoData == [ok |-> FALSE, data |-> <<>>, u |-> BlankU2d]

\* the property Util2d._array: [ok, data, u], u the grid with its cache
\* __value_built filled when the value is a file name or a scalar
\* an array built on use and not kept
BuiltNotKept(u, data) == [ok |-> TRUE, data |-> data, u |-> u]

\* the array _array builds on first use and keeps in value_built
BuiltArray(u, data) ==
    [ok |-> TRUE, data |-> data, u |-> [u EXCEPT !.value_built = Some(data)]]

Util2d__array(u, heap, fs) ==
    IF u.vtype = "ndarray" THEN [ok |-> TRUE, data |-> heap[u.ref].data, u |-> u]
    ELSE IF u.value_built # None
    THEN [ok |-> TRUE, data |-> Get(u.value_built), u |-> u]
    ELSE IF u.vtype # "str" THEN BuiltArray(u, Full(u.shape, u.scalar))
    ELSE IF ~Exists(fs, u.path) \/ fs[NormPath(u.path)].bin THEN NoData
    ELSE With(load_txt(u.shape, fs[NormPath(u.path)].text, u.dtype,
                       _get_fortran_format(u.format)), LAMBDA l :
             IF ~l.ok THEN NoData ELSE BuiltArray(u, AsType(u.dtype, l.data)))

\* the multiplier as stored, 0.0 included
StoredCnstnt(cnstnt) == cnstnt

\* the multiplier the property array applies: 0.0 is read as 1.0
EffectiveCnstnt(cnstnt) == IF cnstnt = R(0) THEN R(1) ELSE cnstnt

\* the elements of data times c
Times(data, c) ==
    [i \in 1..Len(data) |-> [j \in 1..Len(data[i]) |-> RMul(data[i][j], c)]]

\* the property Util2d.array: [ok, data, u]
Util2d_array(u, heap, fs) ==
    With(Util2d__array(u, heap, fs), LAMBDA r :
        IF ~r.ok THEN NoData
        ELSE [ok |-> TRUE,
              data |-> AsType(u.dtype, Times(r.data, EffectiveCnstnt(u.cnstnt))),
              u |-> r.u])

\* a[k] = value on the rows of a 2-D array of the given dtype: k is <<i>> (a
\* row) or <<i, j>> (an element), 0-based
AssignItem(data, dtype, k, value) ==
    [i \in 1..Len(data) |-> [j \in 1..Len(data[i]) |->
        IF i = k[1] + 1 /\ (Len(k) = 1 \/ j = k[2] + 1)
        THEN CastNum(dtype, value) ELSE data[i][j]]]

IndexOk(shape, k) ==
    /\ Len(k) \in {1, 2}
    /\ k[1] \in 0..(shape[1] - 1)
    /\ Len(k) = 2 => k[2] \in 0..(shape[2] - 1)

\* Util2d.__setitem__: [ok, u, heap]
Util2d__setitem__(u, k, value, heap, fs) ==
    With(Util2d_array(u, heap, fs), LAMBDA a :
        IF ~a.ok \/ ~IndexOk(u.shape, k) THEN [ok |-> FALSE, u |-> u, heap |-> heap]
        ELSE [ok |-> TRUE,
              u |-> [a.u EXCEPT !.vtype = "ndarray", !.ref = Len(heap) + 1,
                                !.value_built = None],
              heap |-> Append(heap,
                              NDArray(u.dtype,
                                      AsType(u.dtype,
                                             AssignItem(a.data, u.dtype, k, value))))])

----------------------------------------------------------------------------
(* Util2d: file names                                                      *)

\* os.path.join of two texts
PathJoin(a, b) ==
    IF b # <<>> /\ b[1] = "/" THEN b
    ELSE IF a = <<>> \/ a[Len(a)] = "/" THEN a \o b
    ELSE a \o <<"/">> \o b

\* os.path.split(p)[-1]: what follows the last "/"
RECURSIVE BaseName(_)
BaseName(path) ==
    With(FirstIndex(path, "/"), LAMBDA i :
        IF i = 0 THEN path ELSE BaseName(SubSeq(path, i + 1, Len(path))))

\* the property Util2d.filename
filename(u) ==
    IF u.vtype # "str"
    THEN (IF u.ext_filename # None THEN BaseName(Get(u.ext_filename))
          ELSE BaseName(u.ext_filename_default))
    ELSE BaseName(u.path)

\* the property Util2d.python_file_path
python_file_path(u, m) ==
    LET p0 == IF m.model_ws # <<".">> THEN m.model_ws ELSE <<>>
        p1 == IF m.external_path # None THEN PathJoin(p0, Get(m.external_path)) ELSE p0
    IN  PathJoin(p1, filename(u))

\* the property Util2d.model_file_path
model_file_path(u, m) ==
    PathJoin(IF m.external_path # None THEN Get(m.external_path) ELSE <<>>, filename(u))

----------------------------------------------------------------------------
(* The container (model) and its registrar of external files               *)
(*                                                                         *)
(* A container is [free_format, external_path, model_ws, verbose,          *)
(* next_unit, external]: external is the list of <<path, unit, binary>>    *)
(* entries add_external registered, next_unit the unit next_ext_unit       *)
(* returns next.                                                           *)

\* model.next_ext_unit(): <<the unit, the container afterwards>>
next_ext_unit(m) == <<m.next_unit, [m EXCEPT !.next_unit = @ + 1]>>

\* model.add_external(path, unit, binary)
add_external(m, path, unit, binary) ==
    [m EXCEPT !.external = Append(@, <<path, unit, binary>>)]

----------------------------------------------------------------------------
(* Util2d: control records and get_file_entry                              *)

KwConstant == <<"C", "O", "N", "S", "T", "A", "N", "T">>

KwInternal == <<"I", "N", "T", "E", "R", "N", "A", "L">>

KwExternal == <<"E", "X", "T", "E", "R", "N", "A", "L">>

KwOpenClose == <<"O", "P", "E", "N", "/", "C", "L", "O", "S", "E">>

\* Util2d._get_fixed_cr; locat is None or Some(n)
_get_fixed_cr(u, locat) ==
    IF locat = None \/ u.dtype \notin {"int", "float32"} THEN Fail
    ELSE Ok(RJust(FmtF(R(Get(locat)), 0), 10)
            \o (IF u.dtype = "int" THEN RJust(FmtF(u.cnstnt, 0), 10)
                ELSE RJust(FmtG(u.cnstnt, 5), 10))
            \o RJust(_get_fortran_format(u.format), 20)
            \o RJust(FmtF(R(u.iprn), 0), 10) \o <<" ", "#">> \o u.name \o <<"\n">>)

\* Util2d.get_constant_cr
get_constant_cr(u, m, value) ==
    IF ~m.free_format THEN _get_fixed_cr(u, Some(0))
    ELSE With(_get_python_format(u.format), LAMBDA pf :
         With(PyFormat(value, ~IsIntDtype(u.dtype), pf.code, pf.width, pf.decimal),
              LAMBDA v :
             IF ~v.ok THEN Fail
             ELSE Ok(KwConstant \o <<" ">> \o v.text
                     \o (IF u.vtype = "int" THEN Spaces(32) ELSE Spaces(27)) \o <<"#">>
                     \o LJust(u.name, 30) \o <<"\n">>)))

\* the fields `<cnstnt> <fmtin> <iprn> ` the free-format records share
FreeFields(u) ==
    RJust(FmtG(u.cnstnt, 6), 15) \o <<" ">> \o RJust(_get_fortran_format(u.format), 10)
    \o <<" ">> \o RJust(FmtF(R(u.iprn), 0), 2) \o <<" ">>

\* Util2d.get_internal_cr
get_internal_cr(u, m) ==
    IF m.free_format
    THEN Ok(KwInternal \o <<" ">> \o FreeFields(u) \o <<"#">> \o LJust(u.name, 30)
            \o <<"\n">>)
    ELSE _get_fixed_cr(u, u.locat)

\* Util2d.get_openclose_cr
get_openclose_cr(u, m) ==
    Ok(KwOpenClose \o <<" ", " ">> \o RJust(model_file_path(u, m), 30) \o <<" ">>
       \o FreeFields(u) \o LJust(u.name, 30) \o <<"\n">>)

\* Util2d.get_external_cr: [ok, text, m]
get_external_cr(u, m) ==
    With(next_ext_unit(m), LAMBDA nx :
    With(IF u.format.isbinary THEN -Abs(nx[1]) ELSE nx[1], LAMBDA locat :
    With(IF m.free_format
         THEN Ok(KwExternal \o <<" ", " ">> \o RJust(IntStr(locat), 30) \o <<" ">>
                 \o FreeFields(u) \o LJust(u.name, 30) \o <<"\n">>)
         ELSE _get_fixed_cr(u, Some(locat)), LAMBDA cr :
        [ok |-> cr.ok, text |-> cr.text,
         m |-> add_external(nx[2], model_file_path(u, m), locat, u.format.isbinary)])))

\* the property Util2d.string: [ok, text, u]
Util2d_string(u, heap, fs) ==
    With(Util2d__array(u, heap, fs), LAMBDA r :
        IF ~r.ok THEN [ok |-> FALSE, text |-> <<>>, u |-> u]
        ELSE With(array2string(u.shape, r.data, u.dtype, _get_python_format(u.format)),
                  LAMBDA t : [ok |-> t.ok, text |-> t.text, u |-> r.u]))

\* np.savetxt(file, data, fmt, delimiter='') with the default numpy format
\* of the dtype: '%10d' or '%15.6E'
RECURSIVE SaveTxtRow(_, _)
SaveTxtRow(r, dtype) ==
    IF r = <<>> THEN <<>>
    ELSE (IF IsIntDtype(dtype) THEN RJust(IntStr(Head(r)[1]), default_int_width)
          ELSE RJust(FmtE(Head(r), default_float_decimal), default_float_width))
         \o SaveTxtRow(Tail(r), dtype)

RECURSIVE SaveTxt(_, _)
SaveTxt(data, dtype) ==
    IF data = <<>> THEN <<>>
    ELSE SaveTxtRow(Head(data), dtype) \o <<"\n">> \o SaveTxt(Tail(data), dtype)

\* array2string(shape, data, fortran_format=...) as write_txt calls it: the
\* pattern is built from the decoded descriptor as '{0:<width>.<decimal><fmt>}',
\* which is no valid pattern when decimal is None or fmt is I
array2string_fortran(shape, data, dtype, fortran_format) ==
    With(decode_fortran_descriptor(fortran_format), LAMBDA d :
        IF ~d.ok \/ d.kind # "fixed" \/ d.decimal = None \/ d.fmt = "I" THEN Fail
        ELSE array2string(shape, data, dtype,
                          [npl |-> d.npl, code |-> d.fmt, width |-> d.width,
                           decimal |-> d.decimal]))

\* Util2d.write_txt(shape, path, data, fortran_format): [ok, fs]; a failure
\* after the file was opened for writing leaves it empty
write_txt(shape, path, data, dtype, fortran_format, fs) ==
    IF Upper(fortran_format) = <<"(", "F", "R", "E", "E", ")">>
    THEN IF dtype \in {"int", "float32"}
         THEN [ok |-> TRUE, fs |-> WriteFile(fs, path, TextFile(SaveTxt(data, dtype)))]
         ELSE [ok |-> FALSE, fs |-> fs]
    ELSE With(array2string_fortran(shape, data, dtype, fortran_format), LAMBDA t :
             IF t.ok THEN [ok |-> TRUE, fs |-> WriteFile(fs, path, TextFile(t.text))]
             ELSE [ok |-> FALSE, fs |-> WriteFile(fs, path, TextFile(<<>>))])

\* Util2d.write_bin(shape, path, data, bintype="head")
write_bin(shape, path, data, dtype, fs) ==
    [ok |-> TRUE, fs |-> WriteFile(fs, path, BinFile(dtype, data))]

\* a result of get_file_entry: the entry (or a raised exception) and the
\* grid, container and file system it leaves
Entry(ok, text, u, m, fs) == [ok |-> ok, text |-> text, u |-> u, m |-> m, fs |-> fs]

\* get_file_entry, branch how == "internal"
EntryInternal(u, m, heap, fs) ==
    IF u.format.isbinary THEN Entry(FALSE, <<>>, u, m, fs)
    ELSE With(get_internal_cr(u, m), LAMBDA cr :
             IF ~cr.ok THEN Entry(FALSE, <<>>, u, m, fs)
             ELSE With(Util2d_string(u, heap, fs), LAMBDA st :
                      IF ~st.ok THEN Entry(FALSE, <<>>, u, m, fs)
                      ELSE Entry(TRUE, cr.text \o st.text, st.u, m, fs)))

\* the file get_file_entry leaves at target for an external or open/close
\* record: [ok, u, fs]
ExternalFile(u, target, heap, fs) ==
    IF u.vtype # "str"
    THEN With(Util2d__array(u, heap, fs), LAMBDA r :
             IF ~r.ok THEN [ok |-> FALSE, u |-> u, fs |-> fs]
             ELSE With(IF u.format.isbinary
                       THEN write_bin(u.shape, target, r.data, u.dtype, fs)
                       ELSE write_txt(u.shape, target, r.data, u.dtype,
                                      _get_fortran_format(u.format), fs), LAMBDA w :
                      [ok |-> w.ok, u |-> r.u, fs |-> w.fs]))
    ELSE IF u.path # target
    THEN \* the value is a file name other than the target: replace the target
         With(IF Exists(fs, target) THEN RemoveFile(fs, target) ELSE fs, LAMBDA fs1 :
             IF Exists(fs1, u.path)
             THEN [ok |-> TRUE, u |-> u,
                   fs |-> WriteFile(fs1, target, fs1[NormPath(u.path)])]
             ELSE [ok |-> FALSE, u |-> u, fs |-> fs1])
    ELSE [ok |-> TRUE, u |-> u, fs |-> fs]

\* an external branch that produces the control record, and with it the
\* unit, before it looks at the file
EntryExternalRecordFirst(u, how, m, heap, fs) ==
    IF how = "openclose" /\ ~m.free_format THEN Entry(FALSE, <<>>, u, m, fs)
    ELSE With(ExternalFile(u, python_file_path(u, m), heap, fs), LAMBDA file :
             IF how = "external"
             THEN With(get_external_cr(file.u, m), LAMBDA ex :
                      Entry(file.ok /\ ex.ok, IF file.ok THEN ex.text ELSE <<>>, file.u,
                            ex.m, file.fs))
             ELSE With(get_openclose_cr(file.u, m), LAMBDA oc :
                      Entry(file.ok /\ oc.ok, IF file.ok THEN oc.text ELSE <<>>, file.u,
                            m, file.fs)))

\* get_file_entry, branch how in ("external", "openclose")
EntryExternal(u, how, m, heap, fs) ==
    IF how = "openclose" /\ ~m.free_format THEN Entry(FALSE, <<>>, u, m, fs)
    ELSE With(ExternalFile(u, python_file_path(u, m), heap, fs), LAMBDA file :
             IF ~file.ok THEN Entry(FALSE, <<>>, file.u, m, file.fs)
             ELSE IF how = "external"
             THEN With(get_external_cr(file.u, m), LAMBDA ex :
                      Entry(ex.ok, ex.text, file.u, ex.m, file.fs))
             ELSE With(get_openclose_cr(file.u, m), LAMBDA oc :
                      Entry(oc.ok, oc.text, file.u, m, file.fs)))

\* the value a constant record carries: the scalar, or the only element of
\* the array: [ok, u, value]
ConstantValue(u, heap, fs) ==
    IF u.vtype \in {"int", "np.float32"} THEN [ok |-> TRUE, u |-> u, value |-> u.scalar]
    ELSE With(Util2d__array(u, heap, fs), LAMBDA r :
             IF ~r.ok THEN [ok |-> FALSE, u |-> u, value |-> R(0)]
             ELSE With(Unique(r.data), LAMBDA un :
                      IF Cardinality(un) # 1 THEN [ok |-> FALSE, u |-> r.u, value |-> R(0)]
                      ELSE [ok |-> TRUE, u |-> r.u, value |-> CHOOSE x \in un : TRUE]))

\* get_file_entry, branch how == "constant"
EntryConstant(u, m, heap, fs) ==
    With(ConstantValue(u, heap, fs), LAMBDA c :
        IF ~c.ok THEN Entry(FALSE, <<>>, c.u, m, fs)
        ELSE With(get_constant_cr(c.u, m, c.value), LAMBDA cr :
                 Entry(cr.ok, cr.text, c.u, m, fs)))

\* the override or the stored strategy, whatever the format
ResolveHowAsAsked(u, m, how) == IF how # None THEN Get(how) ELSE u.how

\* the strategy get_file_entry renders: the override or the stored one, and
\* for a binary format never constant or internal
ResolveHow(u, m, how) ==
    With(IF how # None THEN Get(how) ELSE u.how, LAMBDA h :
        IF u.format.isbinary /\ h \in {"constant", "internal"}
        THEN (IF m.free_format THEN "openclose" ELSE "external")
        ELSE h)

\* Util2d.get_file_entry(how): how is None or Some(strategy)
get_file_entry(u, how, m, heap, fs) ==
    With(ResolveHow(u, m, how), LAMBDA h :
        CASE h = "internal" -> EntryInternal(u, m, heap, fs)
          [] h \in {"external", "openclose"} -> EntryExternal(u, h, m, heap, fs)
          [] h = "constant" -> EntryConstant(u, m, heap, fs)
          [] OTHER -> Entry(FALSE, <<>>, u, m, fs))

----------------------------------------------------------------------------
(* Util2d: parse_control_record and load                                   *)

\* str(['open/close', 'internal', 'external', 'constant'])
FreeFmtListText ==
    <<"[", "'">> \o Lower(KwOpenClose) \o <<"'", ",", " ", "'">> \o Lower(KwInternal)
    \o <<"'", ",", " ", "'">> \o Lower(KwExternal) \o <<"'", ",", " ", "'">>
    \o Lower(KwConstant) \o <<"'", "]">>

\* s.replace('d', 'e') on a lower-case text
DtoE(s) == [i \in 1..Len(s) |-> IF s[i] = "d" THEN "e" ELSE s[i]]

NoRecord ==
    [ok |-> FALSE, type |-> "", cnstnt |-> None, nunit |-> None, iprn |-> -1,
     fmtin |-> None, fname |-> None]

\* the multiplier or constant of a control record: np.float or np.int of the
\* token
ParseCnstnt(isfloat, tok) ==
    IF isfloat THEN ParseFloat(DtoE(Lower(tok))) ELSE ParseInt(Lower(tok))

\* parse_control_record, the branch of a line whose first token is found in
\* the text of the keyword list; raw is the lower-case tokens of the line
ParseFreeRecord(raw, isfloat, ext_unit_dict) ==
    With2(raw[1], IF raw[1] \in {Lower(KwExternal), Lower(KwOpenClose)} THEN 3 ELSE 2,
          LAMBDA kw, pos :
        IF kw \notin {Lower(KwConstant), Lower(KwInternal), Lower(KwExternal),
                      Lower(KwOpenClose)}
        THEN [NoRecord EXCEPT !.ok = TRUE, !.type = "other"]
        ELSE IF Len(raw) < pos THEN NoRecord
        ELSE With(ParseCnstnt(isfloat, raw[pos]), LAMBDA c :
            IF ~c.ok THEN NoRecord
            ELSE IF kw = Lower(KwConstant)
            THEN [NoRecord EXCEPT !.ok = TRUE, !.type = "constant", !.cnstnt = Some(c.v)]
            ELSE IF Len(raw) < pos + 2 THEN NoRecord
            ELSE With2(ParseInt(raw[pos + 2]), ParseInt(raw[2]), LAMBDA ip, un :
                IF ~ip.ok \/ (kw = Lower(KwExternal) /\ ~un.ok) THEN NoRecord
                ELSE [ok |-> TRUE,
                      type |-> IF kw = Lower(KwInternal) THEN "internal"
                               ELSE IF kw = Lower(KwExternal) THEN "external"
                               ELSE "open/close",
                      cnstnt |-> Some(c.v),
                      nunit |-> IF kw = Lower(KwExternal) THEN Some(un.v[1]) ELSE None,
                      iprn |-> ip.v[1], fmtin |-> Some(Strip(raw[pos + 1])),
                      fname |-> IF kw = Lower(KwOpenClose) THEN Some(Strip(raw[2]))
                                ELSE IF kw = Lower(KwExternal)
                                        /\ un.v[1] \in DOMAIN ext_unit_dict
                                THEN Some(Strip(ext_unit_dict[un.v[1]]))
                                ELSE None])))

\* a classification that takes every positive locat for another unit
FixedTypeOtherUnit(locat, current_unit) ==
    IF locat = 0 THEN "constant" ELSE "external"

\* the type of a fixed-width record by its locat
FixedType(locat, current_unit) ==
    IF locat = 0 THEN "constant"
    ELSE IF locat < 0 THEN "external"
    ELSE IF current_unit = Some(locat) THEN "internal"
    ELSE "external"

\* parse_control_record, the fixed-width branch; current_unit is None or
\* Some(n)
ParseFixedRecord(line, current_unit, isfloat, array_format) ==
    With2(ParseInt(Slice(line, 0, 10)),
          IF isfloat THEN ParseFloat(DtoE(Lower(Strip(Slice(line, 10, 20)))))
          ELSE ParseInt(Slice(line, 10, 20)), LAMBDA lc, c0 :
    With2(lc.v[1], array_format = Some("mt3d"), LAMBDA locat, mt3d :
        IF ~lc.ok \/ ~c0.ok THEN NoRecord
        ELSE IF mt3d /\ locat \in {101, 102} THEN NoRecord
        ELSE With(ParseInt(Slice(line, 40, 50)), LAMBDA ip :
            [ok |-> TRUE,
             type |-> IF mt3d /\ locat \in {100, 103} THEN "internal"
                      ELSE FixedType(locat, current_unit),
             cnstnt |-> Some(IF ~isfloat /\ c0.v = R(0) THEN R(1) ELSE c0.v),
             nunit |-> IF mt3d /\ locat \in {100, 103} THEN current_unit
                       ELSE IF locat = 0 THEN None ELSE Some(Abs(locat)),
             iprn |-> IF locat = 0 THEN -1 ELSE IF ip.ok THEN ip.v[1] ELSE 0,
             fmtin |-> IF mt3d /\ locat = 103 THEN Some(<<"(", "f", "r", "e", "e", ")">>)
                       ELSE IF locat < 0
                       THEN Some(<<"(", "b", "i", "n", "a", "r", "y", ")">>)
                       ELSE IF locat # 0 THEN Some(Strip(Slice(line, 20, 40)))
                       ELSE None,
             fname |-> None])))

\* Util2d.parse_control_record: [ok, type, cnstnt, nunit, iprn, fmtin, fname]
parse_control_record(line, current_unit, dtype, ext_unit_dict, array_format) ==
    With(Split(Lower(line)), LAMBDA raw :
        IF raw = <<>> THEN NoRecord
        ELSE IF Contains(FreeFmtListText, raw[1])
        THEN ParseFreeRecord(raw, dtype = "float32", ext_unit_dict)
        ELSE ParseFixedRecord(line, current_unit, dtype = "float32", array_format))

\* Util2d.load_bin(shape, file, dtype, bintype='Head') on the content of a
\* file: the header is read only for a dtype other than int, and for int
\* the read of it fails
load_bin(shape, content, dtype) ==
    IF IsIntDtype(dtype) \/ ~content.bin \/ content.dtype # dtype
       \/ ShapeOf(content) # shape
    THEN NoLoad
    ELSE [ok |-> TRUE, data |-> content.data, rest |-> <<>>]

\* the dtype of the array load_txt returns: zeros(dtype) + NaN
LoadedDtype(dtype) == IF dtype = "float32" THEN "float32" ELSE "float64"

IsBinaryFmtin(fmtin) == Contains(Lower(fmtin), <<"b", "i", "n", "a", "r", "y">>)

NoGrid(heap, stream) == [ok |-> FALSE, u |-> BlankU2d, heap |-> heap, rest |-> stream]

\* the grid Util2d.load builds from loaded data: [ok, u, heap, rest]
GridFromData(m, shape, dtype, name, cr, l, ldtype, heap, fs, rest) ==
    IF ~l.ok THEN NoGrid(heap, rest)
    ELSE With(Append(heap, NDArray(ldtype, l.data)), LAMBDA h1 :
         With(Util2d__init__(m, [U2dArgs(shape, dtype, ArrayArg(Len(h1)), name)
                                 EXCEPT !.iprn = cr.iprn, !.fmtin = cr.fmtin,
                                        !.cnstnt = Get(cr.cnstnt)], h1, fs), LAMBDA g :
             IF ~g.ok THEN NoGrid(heap, rest)
             ELSE [ok |-> TRUE, u |-> g.u, heap |-> g.heap, rest |-> rest]))

\* the file Util2d.load reads the data of a record from: [ok, content,
\* internal], internal for the rest of f_handle itself
NoSource == [ok |-> FALSE, content |-> TextFile(<<>>), internal |-> FALSE]

SourceFile(path, fs) ==
    IF Exists(fs, path)
    THEN [ok |-> TRUE, content |-> fs[NormPath(path)], internal |-> FALSE]
    ELSE NoSource

LoadSource(cr, rest, m, ext_unit_dict, fs) ==
    CASE cr.type = "open/close" ->
           SourceFile(PathJoin(m.model_ws,
                               RemoveChar(RemoveChar(Get(cr.fname), "'"), "\"")), fs)
      [] cr.type = "internal" ->
           [ok |-> TRUE, content |-> TextFile(rest), internal |-> TRUE]
      [] cr.type = "external" ->
           With(IF ~IsBinaryFmtin(Get(cr.fmtin)) \/ Get(cr.nunit) \in DOMAIN ext_unit_dict
                THEN Get(cr.nunit) ELSE -Get(cr.nunit), LAMBDA unit :
               IF unit \in DOMAIN ext_unit_dict THEN SourceFile(ext_unit_dict[unit], fs)
               ELSE NoSource)
      [] OTHER -> NoSource

\* the data of a record, read with load_bin or load_txt
LoadData(src, binary, shape, dtype, fmtin) ==
    IF ~src.ok THEN NoLoad
    ELSE IF binary THEN load_bin(shape, src.content, dtype)
    ELSE IF src.content.bin THEN NoLoad
    ELSE load_txt(shape, src.content.text, dtype, fmtin)

\* Util2d.load(f_handle, model, shape, dtype, name, ext_unit_dict): stream is
\* the unread text of f_handle, current_unit the unit of f_handle found in
\* ext_unit_dict (None when there is none), ext_unit_dict a function from
\* units to file names.  [ok, u, heap, rest]
Util2d_load(stream, m, shape, dtype, name, current_unit, ext_unit_dict, heap, fs) ==
    With(ReadLine(stream), LAMBDA rl :
    With(parse_control_record(rl[1], current_unit, dtype, ext_unit_dict, None), LAMBDA cr :
        IF ~cr.ok THEN NoGrid(heap, rl[2])
        ELSE IF cr.type = "constant"
        THEN With(Util2d__init__(m, [U2dArgs(shape, dtype,
                                             ScalarArg(IF dtype = "float32" THEN "float"
                                                       ELSE "int", Get(cr.cnstnt)), name)
                                     EXCEPT !.iprn = cr.iprn, !.fmtin = cr.fmtin],
                                 heap, fs), LAMBDA k :
                 IF k.ok THEN [ok |-> TRUE, u |-> k.u, heap |-> k.heap, rest |-> rl[2]]
                 ELSE NoGrid(heap, rl[2]))
        ELSE IF cr.type \in {"open/close", "internal", "external"}
        THEN With2(LoadSource(cr, rl[2], m, ext_unit_dict, fs),
                   cr.type # "internal" /\ IsBinaryFmtin(Get(cr.fmtin)),
                   LAMBDA src, binary :
             With(LoadData(src, binary, shape, dtype, Get(cr.fmtin)), LAMBDA l :
                 GridFromData(m, shape, dtype, name, cr, l,
                              IF binary THEN dtype ELSE LoadedDtype(dtype), heap, fs,
                              IF src.internal /\ l.ok THEN l.rest ELSE rl[2])))
        ELSE NoGrid(heap, rl[2])))

\* Util2d.__setattr__ for key "fmtin": [ok, u]
Util2d__setattr__fmtin(u, value) ==
    With(ArrayFormat__init__(u.shape, u.dtype, Some(value)), LAMBDA fm :
        [ok |-> fm.ok, u |-> IF fm.ok THEN [u EXCEPT !.format = fm.af] ELSE u])

----------------------------------------------------------------------------
(* Transient2d                                                             *)
(*                                                                         *)
(* A Transient2d is [made, shape, dtype, name_base, fmtin, locat, seq]:    *)
(* seq is transient_2ds, a function from stress periods to grids.  The     *)
(* value it is built from is a scalar, str or ndarray argument, or         *)
(* DictArg(items) with items the <<key, value>> pairs of a dict in order.  *)

DictArg(items) == [kind |-> "dict", items |-> items]

\* int(key) for a key of the dict
KeyInt(key) ==
    CASE key.kind = "int" -> Num(key.num)
      [] key.kind = "float" -> Num(R(RTrunc(key.num)))
      [] key.kind = "str" -> ParseInt(key.text)
      [] OTHER -> NoNum

\* a test no key fails
NeverNegativeKey(k) == FALSE

\* the test `key < 0` build_transient_sequence makes on a cast key
IsNegativeKey(k) == k < 0

\* Transient2d.__get_2d_instance: [ok, u, heap]
get_2d_instance(t, kper, arg, m, heap, fs) ==
    LET name == t.name_base \o IntStr(kper + 1)
        ext  == IF m.external_path = None THEN None
                ELSE Some(PathJoin(Get(m.external_path), Underscored(t.name_base))
                          \o IntStr(kper) \o DotRef)
    IN  Util2d__init__(m, [U2dArgs(t.shape, t.dtype, arg, name)
                             EXCEPT !.fmtin = t.fmtin, !.ext_filename = ext,
                                    !.locat = t.locat], heap, fs)

\* the dict branch of build_transient_sequence on the items not yet visited:
\* [ok, seq, heap]
RECURSIVE BuildFromDict(_, _, _, _, _, _)
BuildFromDict(t, items, seq, m, heap, fs) ==
    IF items = <<>> THEN [ok |-> TRUE, seq |-> seq, heap |-> heap]
    ELSE With(KeyInt(Head(items)[1]), LAMBDA key :
        IF ~key.ok THEN [ok |-> FALSE, seq |-> <<>>, heap |-> heap]
        ELSE IF IsNegativeKey(key.v[1]) THEN [ok |-> FALSE, seq |-> <<>>, heap |-> heap]
        ELSE With(get_2d_instance(t, key.v[1], Head(items)[2], m, heap, fs), LAMBDA g :
            IF ~g.ok THEN [ok |-> FALSE, seq |-> <<>>, heap |-> heap]
            ELSE BuildFromDict(t, Tail(items),
                               [q \in DOMAIN seq \cup {key.v[1]} |->
                                   IF q = key.v[1] THEN g.u ELSE seq[q]],
                               m, g.heap, fs)))

\* Transient2d.build_transient_sequence: [ok, seq, heap]
build_transient_sequence(t, value, m, heap, fs) ==
    IF value.kind = "dict" THEN BuildFromDict(t, value.items, <<>>, m, heap, fs)
    ELSE IF value.kind \in {"ndarray", "str", "int", "float", "bool"}
    THEN With(get_2d_instance(t, 0, value, m, heap, fs), LAMBDA g :
             IF g.ok THEN [ok |-> TRUE, seq |-> [q \in {0} |-> g.u], heap |-> g.heap]
             ELSE [ok |-> FALSE, seq |-> <<>>, heap |-> heap])
    ELSE [ok |-> FALSE, seq |-> <<>>, heap |-> heap]

\* Transient2d.__init__ for a value that is no Transient2d: [ok, t, heap]
Transient2d__init__(m, shape, dtype, value, name, heap, fs) ==
    With([made |-> TRUE, shape |-> shape, dtype |-> dtype, name_base |-> name,
          fmtin |-> None, locat |-> None, seq |-> <<>>], LAMBDA t0 :
        IF Len(shape) # 2 THEN [ok |-> FALSE, t |-> t0, heap |-> heap]
        ELSE With(build_transient_sequence(t0, value, m, heap, fs), LAMBDA b :
                 IF ~b.ok THEN [ok |-> FALSE, t |-> t0, heap |-> heap]
                 ELSE [ok |-> TRUE, t |-> [t0 EXCEPT !.seq = b.seq], heap |-> b.heap]))

FilledZero == <<"(", "f", "i", "l", "l", "e", "d", " ", "z", "e", "r", "o", ")">>

\* Transient2d.get_zero_2d: the file entry of a new grid of value 0.0, or
\* the exception raised on the way: [ok, text, u, m, fs]
get_zero_2d(t, kper, m, heap, fs) ==
    With(Util2d__init__(m, U2dArgs(t.shape, t.dtype, ScalarArg("float", R(0)),
                                   t.name_base \o IntStr(kper + 1) \o FilledZero),
                        heap, fs), LAMBDA g :
        IF g.ok THEN get_file_entry(g.u, None, m, g.heap, fs)
        ELSE Entry(FALSE, <<>>, g.u, m, fs))

\* min(self.transient_2ds.keys()), for a mapping that has keys
MinKey(keys) == CHOOSE i \in keys : \A j \in keys : i <= j

\* the smallest key, whatever the period asked for
LowestKey(keys, kper) == CHOOSE i \in keys : \A j \in keys : i <= j

\* the first i of range(kper, -1, -1) that is a key; there is one
CarryKey(keys, kper) ==
    CHOOSE i \in keys : i \in 0..kper /\ \A j \in keys : j \in 0..kper => j <= i

\* a result of Transient2d.__getitem__: the grid stored under key (kind
\* "Util2d"), a text (kind "str"), or an exception (ok FALSE), and the
\* container and file system it leaves
Item(ok, kind, key, text, m, fs) ==
    [ok |-> ok, kind |-> kind, key |-> key, text |-> text, m |-> m, fs |-> fs]

\* Transient2d.__getitem__
Transient2d__getitem__(t, kper, m, heap, fs) ==
    With(DOMAIN t.seq, LAMBDA keys :
        IF kper \in keys THEN Item(TRUE, "Util2d", kper, <<>>, m, fs)
        ELSE IF keys = {} THEN Item(FALSE, "", 0, <<>>, m, fs)
        ELSE IF kper < MinKey(keys)
        THEN With(get_zero_2d(t, kper, m, heap, fs), LAMBDA z :
                 IF z.ok THEN Item(TRUE, "str", 0, z.text, z.m, z.fs)
                 ELSE Item(FALSE, "", 0, <<>>, z.m, z.fs))
        ELSE IF \E i \in keys : i \in 0..kper
        THEN Item(TRUE, "Util2d", CarryKey(keys, kper), <<>>, m, fs)
        ELSE Item(FALSE, "", 0, <<>>, m, fs))

\* the loop of the property Transient2d.array from period kper on:
\* [ok, data, t, m, fs], data the 2-D arrays of the periods in order
RECURSIVE ArrayFrom(_, _, _, _, _)
ArrayFrom(t, kper, m, heap, fs) ==
    IF kper >= m.nper THEN [ok |-> TRUE, data |-> <<>>, t |-> t, m |-> m, fs |-> fs]
    ELSE With(Transient2d__getitem__(t, kper, m, heap, fs), LAMBDA it :
        IF ~it.ok \/ it.kind # "Util2d"
        THEN [ok |-> FALSE, data |-> <<>>, t |-> t, m |-> it.m, fs |-> it.fs]
        ELSE With(Util2d_array(t.seq[it.key], heap, it.fs), LAMBDA a :
            IF ~a.ok THEN [ok |-> FALSE, data |-> <<>>, t |-> t, m |-> it.m, fs |-> it.fs]
            ELSE With(ArrayFrom([t EXCEPT !.seq[it.key] = a.u], kper + 1, it.m, heap,
                                it.fs), LAMBDA r :
                     IF ~r.ok THEN r ELSE [r EXCEPT !.data = <<a.data>> \o r.data])))

\* the property Transient2d.array
Transient2d_array(t, m, heap, fs) == ArrayFrom(t, 0, m, heap, fs)

\* Transient2d.get_kper_entry: [ok, itmp, text, t, m, fs]
get_kper_entry(t, kper, m, heap, fs) ==
    IF kper \in DOMAIN t.seq
    THEN With(get_file_entry(t.seq[kper], None, m, heap, fs), LAMBDA e :
             [ok |-> e.ok, itmp |-> IF e.ok THEN 1 ELSE 0, text |-> e.text,
              t |-> [t EXCEPT !.seq[kper] = e.u], m |-> e.m, fs |-> e.fs])
    ELSE IF DOMAIN t.seq = {}
    THEN [ok |-> FALSE, itmp |-> 0, text |-> <<>>, t |-> t, m |-> m, fs |-> fs]
    ELSE IF kper < MinKey(DOMAIN t.seq)
    THEN With(get_zero_2d(t, kper, m, heap, fs), LAMBDA z :
             [ok |-> z.ok, itmp |-> IF z.ok THEN 1 ELSE 0,
              text |-> IF z.ok THEN z.text ELSE <<>>, t |-> t, m |-> z.m, fs |-> z.fs])
    ELSE [ok |-> TRUE, itmp |-> -1, text |-> <<>>, t |-> t, m |-> m, fs |-> fs]

----------------------------------------------------------------------------
(* Util3d                                                                  *)
(*                                                                         *)
(* A Util3d is [made, shape, dtype, name_base, fmtin, locat, util_2ds]:    *)
(* util_2ds is the list of the layer grids.  The arrays a caller passes    *)
(* are 2-D; no operation of a grid writes into an ndarray in place, so the *)
(* view atleast_2d makes of a row is an ndarray of its own here.           *)

LayerWord == <<"L", "a", "y", "e", "r">>

\* name_base[k] of Util3d.__init__ for a name that is no list
LayerNameBase(name) ==
    IF Contains(name, LayerWord) THEN name ELSE name \o <<" ">> \o LayerWord \o <<" ">>

\* the Util2d of layer i (from 0) that build_2d_instances makes of item
LayerInstance(t, i, item, m, heap, fs) ==
    Util2d__init__(m, [U2dArgs(<<t.shape[2], t.shape[3]>>, t.dtype, item,
                               t.name_base \o IntStr(i + 1))
                       EXCEPT !.fmtin = t.fmtin, !.locat = t.locat,
                              !.ext_filename =
                                  IF m.external_path = None THEN None
                                  ELSE Some(PathJoin(Get(m.external_path),
                                                     Underscored(t.name_base))
                                            \o IntStr(i + 1) \o DotRef)],
                   heap, fs)

\* the loops of build_2d_instances over the items from layer i on: every
\* layer is made of the same item (a scalar, a file name, or the array that
\* was tiled): [ok, util_2ds, heap]
RECURSIVE TiledLayers(_, _, _, _, _, _)
TiledLayers(t, i, item, m, heap, fs) ==
    IF i >= t.shape[1] THEN [ok |-> TRUE, util_2ds |-> <<>>, heap |-> heap]
    ELSE With(LayerInstance(t, i, item, m, heap, fs), LAMBDA g :
        IF ~g.ok THEN [ok |-> FALSE, util_2ds |-> <<>>, heap |-> heap]
        ELSE With(TiledLayers(t, i + 1, item, m, g.heap, fs), LAMBDA r :
                 IF ~r.ok THEN [ok |-> FALSE, util_2ds |-> <<>>, heap |-> heap]
                 ELSE [r EXCEPT !.util_2ds = <<g.u>> \o r.util_2ds]))

\* the loop of build_2d_instances over the rows of a 2-D array with as many
\* rows as there are layers, from row i (from 0) on: layer i is made of
\* atleast_2d(row i)
RECURSIVE RowLayers(_, _, _, _, _, _)
RowLayers(t, i, arr, m, heap, fs) ==
    IF i >= t.shape[1] THEN [ok |-> TRUE, util_2ds |-> <<>>, heap |-> heap]
    ELSE With(Append(heap, NDArray(arr.dtype, <<arr.data[i + 1]>>)), LAMBDA h1 :
         With(LayerInstance(t, i, ArrayArg(Len(h1)), m, h1, fs), LAMBDA g :
        IF ~g.ok THEN [ok |-> FALSE, util_2ds |-> <<>>, heap |-> heap]
        ELSE With(RowLayers(t, i + 1, arr, m, g.heap, fs), LAMBDA r :
                 IF ~r.ok THEN [ok |-> FALSE, util_2ds |-> <<>>, heap |-> heap]
                 ELSE [r EXCEPT !.util_2ds = <<g.u>> \o r.util_2ds])))

\* Util3d.build_2d_instances: [ok, util_2ds, heap].  A list is a list of
\* rows here: with a length other than the layer count the assertion fails,
\* and otherwise the first row, cast to a 1-D array, has not the shape of a
\* layer
build_2d_instances(t, value, m, heap, fs) ==
    IF value.kind \in {"int", "float", "bool", "str"}
    THEN TiledLayers(t, 0, value, m, heap, fs)
    ELSE IF value.kind = "list" THEN [ok |-> FALSE, util_2ds |-> <<>>, heap |-> heap]
    ELSE IF value.kind = "ndarray"
    THEN IF ShapeOf(heap[value.ref])[1] # t.shape[1]
         THEN IF ShapeOf(heap[value.ref]) = <<t.shape[2], t.shape[3]>>
              THEN TiledLayers(t, 0, value, m, heap, fs)
              ELSE [ok |-> FALSE, util_2ds |-> <<>>, heap |-> heap]
         ELSE RowLayers(t, 0, heap[value.ref], m, heap, fs)
    ELSE [ok |-> FALSE, util_2ds |-> <<>>, heap |-> heap]

\* Util3d.__init__ for a value that is no Util3d and a name that is no list:
\* [ok, t, heap]
Util3d__init__(m, shape, dtype, value, name, heap, fs) ==
    With([made |-> TRUE, shape |-> shape, dtype |-> dtype,
          name_base |-> LayerNameBase(name), fmtin |-> None, locat |-> None,
          util_2ds |-> <<>>], LAMBDA t0 :
        IF Len(shape) # 3 THEN [ok |-> FALSE, t |-> t0, heap |-> heap]
        ELSE With(build_2d_instances(t0, value, m, heap, fs), LAMBDA b :
                 IF ~b.ok THEN [ok |-> FALSE, t |-> t0, heap |-> heap]
                 ELSE [ok |-> TRUE, t |-> [t0 EXCEPT !.util_2ds = b.util_2ds],
                       heap |-> b.heap]))

\* u3d[l][k] = value: Util3d.__getitem__(l) is the layer grid itself, and
\* the assignment is Util2d.__setitem__ on it: [ok, t, heap]
LayerSetItem(t, l, k, value, heap, fs) ==
    IF l \notin 0..(Len(t.util_2ds) - 1) THEN [ok |-> FALSE, t |-> t, heap |-> heap]
    ELSE With(Util2d__setitem__(t.util_2ds[l + 1], k, value, heap, fs), LAMBDA r :
             [ok |-> r.ok, t |-> [t EXCEPT !.util_2ds[l + 1] = r.u], heap |-> r.heap])

\* the loop of the property Util3d.array from layer i (from 0) on:
\* [ok, data, t]
RECURSIVE LayersFrom(_, _, _, _)
LayersFrom(t, i, heap, fs) ==
    IF i >= Len(t.util_2ds) THEN [ok |-> TRUE, data |-> <<>>, t |-> t]
    ELSE With(Util2d_array(t.util_2ds[i + 1], heap, fs), LAMBDA a :
        IF ~a.ok THEN [ok |-> FALSE, data |-> <<>>, t |-> t]
        ELSE With(LayersFrom([t EXCEPT !.util_2ds[i + 1] = a.u], i + 1, heap, fs),
                  LAMBDA r :
                 IF ~r.ok THEN r ELSE [r EXCEPT !.data = <<a.data>> \o r.data]))

\* the property Util3d.array
Util3d_array(t, heap, fs) == LayersFrom(t, 0, heap, fs)

----------------------------------------------------------------------------
(* The state: one container with its file system, the ndarray objects in   *)
(* memory, and the objects a caller holds                                  *)

VARIABLES
    m,       \* the container (model) the grids belong to
    heap,    \* the ndarray objects; a reference is an index
    fs,      \* the file system
    u,       \* a Util2d the caller built (vtype "" before it is built)
    arr,     \* None, or what the caller last read: _array and array of u
    entry,   \* None, or the result of the last get_file_entry on u
    w,       \* None, or the result of Util2d.load on the text of entry
    entry2,  \* None, or the result of get_file_entry on the loaded grid
    t2d,     \* a Transient2d the caller built
    u3d,     \* a Util3d the caller built
    res      \* None, or the result of the last call on t2d or u3d

vars == <<m, heap, fs, u, arr, entry, w, entry2, t2d, u3d, res>>

\* the number of rows and columns of every grid
NRow == 2

NCol == 2

\* the most ndarray objects in memory
MaxHeap == 5

Shape2d == <<NRow, NCol>>

\* the array whose elements count up from 1 in row-major order
RampData == [i \in 1..NRow |-> [j \in 1..NCol |-> R((i - 1) * NCol + j)]]

\* the arrays the caller owns: a uniform float32 one, and a float64 and an
\* int one with distinct elements
CallerHeap ==
    <<NDArray("float32", Full(Shape2d, R(2))), NDArray("float64", RampData),
      NDArray("int", RampData)>>

GridName == <<"h", "k">>

\* the last stress period a caller asks for
MaxKper == 5

\* the most external files the container registers
MaxExternal == 2

\* a container: free or fixed format, no external path, working directory ".",
\* nper the number of stress periods of its discretization (model.dis.nper)
Container(free) ==
    [free_format |-> free, external_path |-> None, model_ws |-> <<".">>,
     verbose |-> FALSE, next_unit |-> 1000, external |-> <<>>, nper |-> MaxKper + 1]

\* the unit of the package file the grids are written to and loaded from
PackageUnit == 7

NoT2d == [made |-> FALSE]

NoU3d == [made |-> FALSE]

\* nothing is built yet; the caller owns the arrays of CallerHeap
InitWorld ==
    /\ m \in {Container(TRUE), Container(FALSE)}
    /\ heap = CallerHeap
    /\ u = BlankU2d
    /\ arr = None
    /\ entry = None
    /\ w = None
    /\ entry2 = None
    /\ t2d = NoT2d
    /\ u3d = NoU3d
    /\ res = None

Init ==
    /\ InitWorld
    /\ fs = <<>>

\* the values, multipliers and descriptors the caller passes
ValueArgs ==
    {ScalarArg("int", R(5)), ScalarArg("float", Rat(5, 2)), ArrayArg(1), ArrayArg(2),
     ArrayArg(3)}

CnstntArgs == {R(0), R(1), R(3)}

\* two descriptors of the dtype: as many items per line as the grid has
\* columns, and fewer
FmtinArgs(dtype) ==
    IF dtype = "int"
    THEN {<<"(">> \o NatStr(n) \o <<"I", "5", ")">> : n \in {1, NCol}}
    ELSE {<<"(">> \o NatStr(n) \o <<"F", "6", ".", "1", ")">> : n \in {1, NCol}}

\* u = Util2d(m, shape, dtype, value, name, cnstnt=cnstnt, locat=locat)
NewUtil2d(dtype, value, cnstnt, locat) ==
    /\ u.vtype = ""
    /\ \E r \in {Util2d__init__(m, [U2dArgs(Shape2d, dtype, value, GridName)
                                     EXCEPT !.cnstnt = cnstnt, !.locat = locat], heap, fs)} :
           /\ r.ok
           /\ u' = r.u
           /\ heap' = r.heap
    /\ UNCHANGED <<m, fs, arr, entry, w, entry2, t2d, u3d, res>>

\* u.fmtin = value
SetFmtin(value) ==
    /\ u.vtype # ""
    /\ entry = None
    /\ \E r \in {Util2d__setattr__fmtin(u, value)} :
           /\ r.ok
           /\ u' = r.u
    /\ UNCHANGED <<m, heap, fs, arr, entry, w, entry2, t2d, u3d, res>>

\* the caller reads u._array and u.array
ReadArray ==
    /\ u.vtype # ""
    /\ \E raw \in {Util2d__array(u, heap, fs)}, a \in {Util2d_array(u, heap, fs)} :
           /\ arr' = Some([ok |-> a.ok, raw |-> raw.data, data |-> a.data,
                           cnstnt |-> u.cnstnt, dtype |-> u.dtype])
           /\ u' = a.u
    /\ UNCHANGED <<m, heap, fs, entry, w, entry2, t2d, u3d, res>>

\* u[k] = value
SetItem(k, value) ==
    /\ u.vtype # ""
    /\ entry = None
    /\ Len(heap) < MaxHeap
    /\ \E r \in {Util2d__setitem__(u, k, value, heap, fs)} :
           /\ r.ok
           /\ u' = r.u
           /\ heap' = r.heap
    /\ UNCHANGED <<m, fs, arr, entry, w, entry2, t2d, u3d, res>>

\* entry = u.get_file_entry(how), or the exception it raises; of is the grid
\* as it was rendered and how the strategy that was rendered
Render(how) ==
    /\ u.vtype # ""
    /\ entry = None
    /\ \E r \in {get_file_entry(u, how, m, heap, fs)} :
           /\ entry' = Some([ok |-> r.ok, text |-> r.text, of |-> u,
                             how |-> ResolveHow(u, m, how)])
           /\ u' = r.u
           /\ m' = r.m
           /\ fs' = r.fs
    /\ UNCHANGED <<heap, arr, w, entry2, t2d, u3d, res>>

\* w = Util2d.load(f, m, shape, dtype, name, ext_unit_dict) with f positioned
\* at the text of entry; the package file f has the unit the grid was given
\* as locat
Load ==
    /\ entry # None
    /\ Get(entry).ok
    /\ w = None
    /\ \E r \in {Util2d_load(Get(entry).text, m, Get(entry).of.shape, Get(entry).of.dtype,
                             GridName, Get(entry).of.locat, <<>>, heap, fs)} :
           /\ w' = Some([ok |-> r.ok, u |-> r.u, src |-> Get(entry)])
           /\ heap' = r.heap
    /\ UNCHANGED <<m, fs, u, arr, entry, entry2, t2d, u3d, res>>

\* entry2 = w.get_file_entry()
RenderLoaded ==
    /\ w # None
    /\ Get(w).ok
    /\ entry2 = None
    /\ \E r \in {get_file_entry(Get(w).u, None, m, heap, fs)} :
           /\ entry2' = Some([ok |-> r.ok, text |-> r.text, src |-> Get(w).src,
                              of |-> Get(w).u])
           /\ w' = Some([Get(w) EXCEPT !.u = r.u])
           /\ m' = r.m
           /\ fs' = r.fs
    /\ UNCHANGED <<heap, u, arr, entry, t2d, u3d, res>>

Next ==
    \/ \E dtype \in {"int", "float32"}, value \in ValueArgs, cnstnt \in CnstntArgs,
          locat \in (IF m.free_format THEN {None} ELSE {None, Some(PackageUnit)}) :
          NewUtil2d(dtype, value, cnstnt, locat)
    \/ \E value \in FmtinArgs(u.dtype) : SetFmtin(value)
    \/ ReadArray
    \/ SetItem(<<0, 0>>, R(7))
    \/ \E how \in {None, Some("constant"), Some("internal")} : Render(how)
    \/ Load
    \/ RenderLoaded

Spec == Init /\ [][Next]_vars

----------------------------------------------------------------------------
(* Util2d: the multiplier, the round trip and the constant record          *)

AllEqual(data, x) == \A i \in 1..Len(data) : \A j \in 1..Len(data[i]) : data[i][j] = x

\* C1: whenever a caller reads `array`, every element equals the element of
\* `_array` times the effective multiplier (1 when cnstnt is 0, cnstnt
\* otherwise) cast to dtype; raw all-2 gives all-2 under multiplier 0 and
\* all-6 under multiplier 3.
C1_ArrayIsRawTimesEffectiveMultiplier ==
    arr # None =>
        LET a   == Get(arr)
            eff == IF a.cnstnt = R(0) THEN R(1) ELSE a.cnstnt
        IN  /\ a.ok
            /\ \A i \in 1..NRow : \A j \in 1..NCol :
                   a.data[i][j] = (IF a.dtype = "int"
                                   THEN R(RTrunc(RMul(a.raw[i][j], eff)))
                                   ELSE RMul(a.raw[i][j], eff))
            /\ AllEqual(a.raw, R(2)) /\ a.cnstnt = R(0) => AllEqual(a.data, R(2))
            /\ AllEqual(a.raw, R(2)) /\ a.cnstnt = R(3) => AllEqual(a.data, R(6))

\* C1 witness: `array` was read on a grid with raw all-2 and multiplier 0
C1_Witness ==
    /\ arr # None
    /\ Get(arr).ok
    /\ Get(arr).cnstnt = R(0)
    /\ AllEqual(Get(arr).raw, R(2))
    /\ AllEqual(Get(arr).data, R(2))

\* the grid was rendered with the strategy how
Rendered(e, how) == e # None /\ Get(e).how = how

\* the control record of a rendered entry, parsed with the grid's dtype
ParsedRecord(e) ==
    parse_control_record(ReadLine(e.text)[1], e.of.locat, e.of.dtype, <<>>, None)

\* the single value of a scalar grid or of a uniform dense grid
IsUniform(g) ==
    \/ g.vtype \in {"int", "np.float32"}
    \/ g.vtype = "ndarray" /\ Cardinality(Unique(heap[g.ref].data)) = 1

SingleValue(g) ==
    IF g.vtype = "ndarray" THEN CHOOSE x \in Unique(heap[g.ref].data) : TRUE
    ELSE g.scalar

\* C2: a dense grid rendered with strategy internal loads back from the
\* rendered text, and the loaded grid renders to exactly the same text.
C2_InternalRoundTrip ==
    /\ (w # None /\ Get(w).src.how = "internal" /\ Get(w).src.of.vtype = "ndarray")
           => Get(w).ok
    /\ (entry2 # None /\ Get(entry2).src.how = "internal"
            /\ Get(entry2).src.of.vtype = "ndarray")
           => Get(entry2).ok /\ Get(entry2).text = Get(entry2).src.text

\* C3: the header line rendered with strategy constant for a scalar or
\* uniform dense grid of value v parses back to type constant carrying v, in
\* free-format and in fixed-format containers and for any multiplier.
C3_ConstantRecordCarriesValue ==
    (Rendered(entry, "constant") /\ IsUniform(Get(entry).of)) =>
        /\ Get(entry).ok
        /\ \A p \in {ParsedRecord(Get(entry))} :
               p.ok /\ p.type = "constant" /\ p.cnstnt = Some(SingleValue(Get(entry).of))

\* C4: rendering with strategy constant a non-binary dense grid with two or
\* more distinct values raises and returns no entry; when all elements are
\* equal it succeeds and the record carries that unique value.
C4_ConstantNeedsUniform ==
    (Rendered(entry, "constant") /\ Get(entry).of.vtype = "ndarray"
        /\ ~Get(entry).of.format.isbinary) =>
        IF Cardinality(Unique(heap[Get(entry).of.ref].data)) >= 2
        THEN ~Get(entry).ok /\ Get(entry).text = <<>>
        ELSE /\ Get(entry).ok
             /\ \A p \in {ParsedRecord(Get(entry))} :
                    /\ p.ok
                    /\ p.type = "constant"
                    /\ p.cnstnt = Some(SingleValue(Get(entry).of))

----------------------------------------------------------------------------
(* Transient2d: a caller builds one and asks for periods                   *)

T2dName == <<"r", "c", "h">>

DataFile == <<"a", ".", "d", "a", "t">>

\* the file a.dat holds the array RampData in the default float format
DataFileText ==
    array2string(Shape2d, RampData, "float32",
                 _get_python_format(ArrayFormat__init__(Shape2d, "float32", None).af)).text

InitT2d ==
    /\ InitWorld
    /\ fs = [q \in {DataFile} |-> TextFile(DataFileText)]

\* the keys a caller uses in a period -> value dict
KeyArgs ==
    {ScalarArg("int", R(-1)), ScalarArg("int", R(0)), ScalarArg("int", R(1)),
     ScalarArg("int", R(3)), StrArg(<<"3">>), StrArg(<<"-", "1">>), StrArg(<<"x">>)}

\* the dicts {k1: A} and {k1: A, k2: B}, A the uniform array and B the ramp
DictArgs ==
    {DictArg(<<(<<k, ArrayArg(1)>>)>>) : k \in KeyArgs}
    \cup {DictArg(<<(<<k[1], ArrayArg(1)>>), (<<k[2], ArrayArg(2)>>)>>) :
             k \in {kk \in KeyArgs \X KeyArgs : kk[1] # kk[2]}}

\* a single array, scalar, file name, or a numeric text
SingleArgs ==
    {ArrayArg(2), ScalarArg("float", Rat(5, 2)), ScalarArg("int", R(5)), StrArg(DataFile),
     StrArg(<<"3">>)}

\* t2d = Transient2d(m, shape, dtype, value, name), or the exception it raises
NewTransient2d(dtype, value) ==
    /\ ~t2d.made
    /\ res = None
    /\ \E r \in {Transient2d__init__(m, Shape2d, dtype, value, T2dName, heap, fs)} :
           /\ res' = Some([op |-> "init", ok |-> r.ok, value |-> value])
           /\ t2d' = IF r.ok THEN r.t ELSE NoT2d
           /\ heap' = r.heap
    /\ UNCHANGED <<m, fs, u, arr, entry, w, entry2, u3d>>

\* x = t2d[kper]
GetItem(kper) ==
    /\ t2d.made
    /\ \E r \in {Transient2d__getitem__(t2d, kper, m, heap, fs)} :
           /\ res' = Some([op |-> "getitem", kper |-> kper, ok |-> r.ok,
                           kind |-> r.kind, key |-> r.key, text |-> r.text])
           /\ m' = r.m
           /\ fs' = r.fs
    /\ UNCHANGED <<heap, u, arr, entry, w, entry2, t2d, u3d>>

\* (itmp, text) = t2d.get_kper_entry(kper); before is the state it ran in
GetKperEntry(kper) ==
    /\ t2d.made
    /\ Len(m.external) < MaxExternal
    /\ \E r \in {get_kper_entry(t2d, kper, m, heap, fs)} :
           /\ res' = Some([op |-> "kper_entry", kper |-> kper, ok |-> r.ok,
                           itmp |-> r.itmp, text |-> r.text,
                           before |-> [t |-> t2d, m |-> m, fs |-> fs]])
           /\ t2d' = r.t
           /\ m' = r.m
           /\ fs' = r.fs
    /\ UNCHANGED <<heap, u, arr, entry, w, entry2, u3d>>

\* a = t2d.array
ReadTransientArray ==
    /\ t2d.made
    /\ \E r \in {Transient2d_array(t2d, m, heap, fs)} :
           /\ res' = Some([op |-> "array", ok |-> r.ok, data |-> r.data])
           /\ t2d' = r.t
           /\ m' = r.m
           /\ fs' = r.fs
    /\ UNCHANGED <<heap, u, arr, entry, w, entry2, u3d>>

NextT2d ==
    \/ \E dtype \in {"int", "float32"},
          value \in DictArgs \cup SingleArgs \cup {ListArg(2), OtherArg} :
          NewTransient2d(dtype, value)
    \/ \E kper \in (-1)..MaxKper : GetItem(kper)
    \/ \E kper \in (-1)..MaxKper : GetKperEntry(kper)
    \/ ReadTransientArray

SpecT2d == InitT2d /\ [][NextT2d]_vars

\* the result of the last call, when it was a call of op
Called(op) == res # None /\ Get(res).op = op

\* C5: a lookup of a period k at or after the smallest key returns the grid
\* stored under k when k is a key, and otherwise the grid stored under the
\* largest key that is at most k; with keys {0, 3}, lookup(1) is the grid of
\* key 0 and lookup(5) the grid of key 3.
C5_CarryForward ==
    Called("getitem") =>
        \A K \in {DOMAIN t2d.seq}, g \in {Get(res)} :
            /\ g.kper \in K => g.ok /\ g.kind = "Util2d" /\ g.key = g.kper
            /\ (g.kper \notin K /\ g.kper >= MinKey(K)) =>
                   /\ g.ok
                   /\ g.kind = "Util2d"
                   /\ g.key \in K
                   /\ g.key <= g.kper
                   /\ \A j \in K : j <= g.kper => j <= g.key
            /\ (K = {0, 3} /\ g.kper = 1) => g.key = 0
            /\ (K = {0, 3} /\ g.kper = 5) => g.key = 3

\* C5 witness: with keys {0, 3}, lookup(5) returned the grid of key 3
C5_Witness ==
    /\ Called("getitem")
    /\ DOMAIN t2d.seq = {0, 3}
    /\ Get(res).kper = 5
    /\ Get(res).ok
    /\ Get(res).kind = "Util2d"
    /\ Get(res).key = 3

\* C6: a lookup of a negative period raises an error: it returns no grid
\* and no other value.
C6_NegativeLookupRaises ==
    (Called("getitem") /\ Get(res).kper < 0) => ~Get(res).ok

\* C7: a lookup of a period from 0 up to the smallest key returns a grid,
\* as a lookup of a present period does.
C7_ZeroGridBeforeFirstKey ==
    (Called("getitem") /\ Get(res).kper >= 0
        /\ Get(res).kper < MinKey(DOMAIN t2d.seq)) =>
        Get(res).ok /\ Get(res).kind = "Util2d"

\* C8: get_kper_entry(k) returns flag 1 with the rendered entry of the grid
\* stored at k when k is a key, flag 1 with a constant record of value zero
\* when k is below the smallest key, and flag -1 with empty text otherwise.
C8_KperEntryFlags ==
    Called("kper_entry") =>
        \A K \in {DOMAIN Get(res).before.t.seq}, r \in {Get(res)} :
            /\ r.kper \in K =>
                   \A e \in {get_file_entry(r.before.t.seq[r.kper], None, r.before.m,
                                            heap, r.before.fs)} :
                       /\ r.ok = e.ok
                       /\ e.ok => r.itmp = 1 /\ r.text = e.text
            /\ (r.kper \notin K /\ r.kper < MinKey(K)) =>
                   /\ r.ok
                   /\ r.itmp = 1
                   /\ \A p \in {parse_control_record(ReadLine(r.text)[1], None,
                                                     r.before.t.dtype, <<>>, None)} :
                          p.ok /\ p.type = "constant" /\ p.cnstnt = Some(R(0))
            /\ (r.kper \notin K /\ r.kper >= MinKey(K)) =>
                   r.ok /\ r.itmp = -1 /\ r.text = <<>>

\* a key of a dict that is negative once cast to an integer
NegativeKeyArg(key) == KeyInt(key).ok /\ KeyInt(key).v[1] < 0

----------------------------------------------------------------------------
(* Util3d: a caller builds one, assigns items of layers and reads arrays   *)

\* the most layers of a Util3d
MaxLay == 3

\* the most ndarray objects in memory once layers are assigned
MaxHeap3d == 8

\* u3d = Util3d(m, (nlay, nrow, ncol), dtype, value, name), or the exception
\* it raises; u3d keeps the value it was built of and the layers assigned
NewUtil3d(nlay, dtype, value) ==
    /\ ~u3d.made
    /\ res = None
    /\ \E r \in {Util3d__init__(m, <<nlay, NRow, NCol>>, dtype, value, GridName, heap,
                                fs)} :
           /\ res' = Some([op |-> "init3d", ok |-> r.ok, value |-> value])
           /\ u3d' = IF r.ok
                     THEN [made |-> TRUE, obj |-> r.t, value |-> value, touched |-> {}]
                     ELSE NoU3d
           /\ heap' = r.heap
    /\ UNCHANGED <<m, fs, u, arr, entry, w, entry2, t2d>>

\* u3d[l][k] = value
SetLayerItem(l, k, value) ==
    /\ u3d.made
    /\ Len(heap) < MaxHeap3d
    /\ \E r \in {LayerSetItem(u3d.obj, l, k, value, heap, fs)} :
           /\ r.ok
           /\ u3d' = [u3d EXCEPT !.obj = r.t, !.touched = @ \cup {l}]
           /\ heap' = r.heap
           /\ res' = Some([op |-> "setitem3d", ok |-> TRUE, layer |-> l])
    /\ UNCHANGED <<m, fs, u, arr, entry, w, entry2, t2d>>

\* a = u3d.array
ReadArray3d ==
    /\ u3d.made
    /\ \E r \in {Util3d_array(u3d.obj, heap, fs)} :
           /\ res' = Some([op |-> "array3d", ok |-> r.ok, data |-> r.data])
           /\ u3d' = [u3d EXCEPT !.obj = r.t]
    /\ UNCHANGED <<m, heap, fs, u, arr, entry, w, entry2, t2d>>

NextU3d ==
    \/ \E nlay \in 1..MaxLay, dtype \in {"int", "float32"},
          value \in ValueArgs \cup {ListArg(2), OtherArg} :
          NewUtil3d(nlay, dtype, value)
    \/ \E l \in 0..(MaxLay - 1) : SetLayerItem(l, <<0, 0>>, R(7))
    \/ ReadArray3d

SpecU3d == Init /\ [][NextU3d]_vars

\* C10: a Util3d built of one 2-D array of the shape of a layer has as many
\* layers as asked for, every layer materializes to the values of that
\* array, and an item assignment on one layer changes neither the array of
\* another layer nor the array the caller passed.
C10_BroadcastIndependentLayers ==
    /\ (Called("init3d") /\ Get(res).value.kind = "ndarray") => Get(res).ok
    /\ (u3d.made /\ u3d.value.kind = "ndarray") =>
           /\ Len(u3d.obj.util_2ds) = u3d.obj.shape[1]
           /\ heap[u3d.value.ref] = CallerHeap[u3d.value.ref]
           /\ \A l \in 1..Len(u3d.obj.util_2ds) :
                  (l - 1) \notin u3d.touched =>
                      \A a \in {Util2d_array(u3d.obj.util_2ds[l], heap, fs)} :
                          a.ok /\ a.data = CallerHeap[u3d.value.ref].data

----------------------------------------------------------------------------
(* ArrayFormat.decode_fortran_descriptor on descriptor texts               *)

\* the parts of a column descriptor (<n><L><w>[.<d>]): n and d may be absent
NplArgs == {None, Some(1), Some(5), Some(10)}

CodeArgs == {"I", "G", "E", "F"}

WidthArgs == {5, 12, 15}

DecimalArgs == {None, Some(0), Some(4), Some(6)}

\* the text of a column descriptor
ColumnDescriptor(n, code, width, d) ==
    <<"(">> \o (IF n = None THEN <<>> ELSE NatStr(Get(n))) \o <<code>> \o NatStr(width)
    \o (IF d = None THEN <<>> ELSE <<".">> \o NatStr(Get(d))) \o <<")">>

FreeWord == <<"F", "R", "E", "E">>

BinaryWord == <<"B", "I", "N", "A", "R", "Y">>

\* a text in parentheses, in single and in double quotes
Parens(t) == <<"(">> \o t \o <<")">>

Quoted(t) == <<"'">> \o t \o <<"'">>

DoubleQuoted(t) == <<"\"">> \o t \o <<"\"">>

\* FREE and BINARY in upper and lower case, bare, in parentheses and in
\* quotes, and texts that hold none of the letters I, G, E, F
SentinelTexts ==
    UNION {{wd, Parens(wd), Quoted(wd), Quoted(Parens(wd)), DoubleQuoted(Parens(wd)),
            <<" ">> \o Parens(wd)} :
           wd \in {FreeWord, Lower(FreeWord), BinaryWord, Lower(BinaryWord)}}

LetterlessTexts ==
    {<<"(", "1", "0", "X", "1", "5", ")">>, <<"(", "1", "5", ")">>, <<"(", ")">>,
     <<"(", "1", "0", ".", "5", ")">>, <<"(", "1", "0", "A", "8", ")">>}

\* r = ArrayFormat.decode_fortran_descriptor(fd), or the exception it raises;
\* parts is the <<n, code, width, d>> the text was written from, if any
Decode(fd, parts) ==
    /\ res' = Some([op |-> "decode", fd |-> fd, parts |-> parts,
                    r |-> decode_fortran_descriptor(fd)])
    /\ UNCHANGED <<m, heap, fs, u, arr, entry, w, entry2, t2d, u3d>>

DecodeColumns(n, code, width, d) ==
    Decode(ColumnDescriptor(n, code, width, d), Some(<<n, code, width, d>>))

DecodeText(fd) == Decode(fd, None)

NextFD ==
    \/ \E n \in NplArgs, code \in CodeArgs, width \in WidthArgs, d \in DecimalArgs :
          DecodeColumns(n, code, width, d)
    \/ \E fd \in SentinelTexts \cup LetterlessTexts : DecodeText(fd)

SpecFD == Init /\ [][NextFD]_vars

\* C11: a column descriptor (<n><L><w>[.<d>]) decodes to n items per line (1
\* when n is absent), width w, decimals d (none when absent) and code L, G
\* being returned as E; a text that holds FREE or BINARY in either case,
\* with or without parentheses or quotes, decodes to the free or binary
\* sentinel; a text with none of the letters raises.
C11_DescriptorParsing ==
    Called("decode") =>
        \A x \in {Get(res)} :
            /\ x.parts # None =>
                   \A p \in {Get(x.parts)} :
                       /\ x.r.ok
                       /\ x.r.kind = "fixed"
                       /\ x.r.npl = (IF p[1] = None THEN 1 ELSE Get(p[1]))
                       /\ x.r.fmt = (IF p[2] = "G" THEN "E" ELSE p[2])
                       /\ x.r.width = p[3]
                       /\ x.r.decimal = p[4]
            /\ Contains(Upper(x.fd), FreeWord) => x.r.ok /\ x.r.kind = "free"
            /\ Contains(Upper(x.fd), BinaryWord) => x.r.ok /\ x.r.kind = "binary"
            /\ x.fd \in LetterlessTexts => ~x.r.ok

----------------------------------------------------------------------------
(* Util2d in containers with and without an external path                  *)

ExtDir == <<"e", "x", "t">>

\* a container with the external path ext (None or Some(directory))
ContainerAt(free, ext) == [Container(free) EXCEPT !.external_path = ext]

\* nothing is built yet; the container is free or fixed format, with or
\* without an external path, and the file a.dat exists
InitExt ==
    /\ m \in {ContainerAt(free, ext) : free \in BOOLEAN, ext \in {None, Some(ExtDir)}}
    /\ heap = CallerHeap
    /\ u = BlankU2d
    /\ arr = None
    /\ entry = None
    /\ w = None
    /\ entry2 = None
    /\ t2d = NoT2d
    /\ u3d = NoU3d
    /\ res = None
    /\ fs = [q \in {DataFile} |-> TextFile(DataFileText)]

\* numbers, booleans, numeric texts, the name of an existing file, a text
\* that is neither, and dense arrays
HowValueArgs ==
    {ScalarArg("int", R(5)), ScalarArg("float", Rat(5, 2)), ScalarArg("bool", R(1)),
     ScalarArg("bool", R(0)), StrArg(<<"3">>), StrArg(<<"2", ".", "5">>),
     StrArg(DataFile), StrArg(<<"x">>), ArrayArg(1), ArrayArg(2), ArrayArg(3)}

\* u = Util2d(m, shape, dtype, value, name, bin=bin, how=how), or the
\* exception it raises
Construct(dtype, value, bin, how) ==
    /\ u.vtype = ""
    /\ res = None
    /\ \E r \in {Util2d__init__(m, [U2dArgs(Shape2d, dtype, value, GridName)
                                     EXCEPT !.bin = bin, !.how = how], heap, fs)} :
           /\ res' = Some([op |-> "init2d", ok |-> r.ok, value |-> value,
                           dtype |-> dtype, bin |-> bin, how |-> how])
           /\ u' = IF r.ok THEN r.u ELSE u
           /\ heap' = r.heap
    /\ UNCHANGED <<m, fs, arr, entry, w, entry2, t2d, u3d>>

NextHow ==
    \E dtype \in {"int", "float32", "bool"}, value \in HowValueArgs :
        Construct(dtype, value, FALSE, None)

SpecHow == InitExt /\ [][NextHow]_vars

\* the strategy of a grid that is stored outside the package file
OutsideHow == IF m.free_format THEN "openclose" ELSE "external"

\* C12: built without an explicit strategy, a grid of a numeric, boolean or
\* numeric-text value has strategy constant whatever the external path; a
\* grid of an existing file, or of a dense array in a container with an
\* external path, has openclose in a free-format container and external
\* otherwise; a grid of a dense array with no external path has internal.
C12_DefaultStrategy ==
    (Called("init2d") /\ Get(res).ok /\ Get(res).how = None) =>
        \A v \in {Get(res).value} :
            /\ v.kind \in {"int", "float", "bool"} => u.how = "constant"
            /\ (v.kind = "str" /\ ~Exists(fs, v.text)) => u.how = "constant"
            /\ (v.kind = "str" /\ Exists(fs, v.text)) => u.how = OutsideHow
            /\ (v.kind = "ndarray" /\ m.external_path # None) => u.how = OutsideHow
            /\ (v.kind = "ndarray" /\ m.external_path = None) => u.how = "internal"

----------------------------------------------------------------------------
(* ArrayFormat.__setattr__: the setters of a grid's format                 *)

\* ArrayFormat.__setattr__, key "format": [ok, af]
SetFormat(af, value) ==
    With(UpperChar(value), LAMBDA code :
        IF code \notin {"I", "G", "E", "F"} THEN [ok |-> FALSE, af |-> af]
        ELSE IF code = "I"
        THEN (IF IsIntDtype(af.dtype)
              THEN [ok |-> TRUE, af |-> [af EXCEPT !.format = code, !.decimal = None]]
              ELSE [ok |-> FALSE, af |-> af])
        ELSE [ok |-> TRUE,
              af |-> [af EXCEPT !.format = code,
                                !.decimal = IF @ = None THEN Some(default_float_decimal)
                                            ELSE @]])

\* ArrayFormat.__setattr__, key "width": the width is stored only for a
\* float32 format and a width below the default; the comparison with a
\* decimal that is None raises (TypeError)
SetWidth(af, value) ==
    IF af.dtype = "float32" /\ af.decimal = None THEN [ok |-> FALSE, af |-> af]
    ELSE IF af.dtype = "float32" /\ value < Get(af.decimal) THEN [ok |-> FALSE, af |-> af]
    ELSE IF af.dtype = "float32" /\ value < default_float_width
    THEN [ok |-> TRUE, af |-> [af EXCEPT !.width = value]]
    ELSE [ok |-> TRUE, af |-> af]

\* ArrayFormat.__setattr__, key "decimal"
SetDecimal(af, value) ==
    IF IsIntDtype(af.dtype) \/ af.decimal = None THEN [ok |-> FALSE, af |-> af]
    ELSE [ok |-> TRUE, af |-> [af EXCEPT !.decimal = Some(value)]]

\* ArrayFormat.__setattr__, keys "entries", "entires_per_line" and "npl"
SetNpl(af, value) ==
    IF value <= af.npl_full THEN [ok |-> TRUE, af |-> [af EXCEPT !.npl = value]]
    ELSE [ok |-> FALSE, af |-> af]

\* u.format.<key> = value on the grid u: r is what the setter returns, and
\* the value is kept as a flag, a number or a text
SetFormatAttr(key, r, flag, num, text) ==
    /\ u.vtype # ""
    /\ res' = Some([op |-> "setattr", key |-> key, ok |-> r.ok, flag |-> flag,
                    num |-> num, text |-> text])
    /\ u' = IF r.ok THEN [u EXCEPT !.format = r.af] ELSE u
    /\ UNCHANGED <<m, heap, fs, arr, entry, w, entry2, t2d, u3d>>

SetAttrBinary(b) ==
    SetFormatAttr("binary", [ok |-> TRUE, af |-> SetBinary(u.format, b)], b, 0, NoText)

SetAttrFree(b) ==
    SetFormatAttr("free", [ok |-> TRUE, af |-> SetFree(u.format, b)], b, 0, NoText)

SetAttrFortran(text) ==
    SetFormatAttr("fortran", _parse_fortran_format(u.format, text), FALSE, 0, text)

SetAttrNpl(n) == SetFormatAttr("npl", SetNpl(u.format, n), FALSE, n, NoText)

SetAttrWidth(n) == SetFormatAttr("width", SetWidth(u.format, n), FALSE, n, NoText)

SetAttrDecimal(n) == SetFormatAttr("decimal", SetDecimal(u.format, n), FALSE, n, NoText)

SetAttrFormat(code) ==
    SetFormatAttr("format", SetFormat(u.format, code), FALSE, 0, <<code>>)

\* the descriptor texts a caller assigns: column descriptors of the dtype of
\* the grid, and the two modes
ColumnTexts(dtype) ==
    IF dtype = "int" THEN {ColumnDescriptor(Some(2), "I", 5, None)}
    ELSE {ColumnDescriptor(Some(2), "F", 12, Some(4)),
          ColumnDescriptor(Some(1), "G", 15, Some(6))}

ModeTexts == {Parens(FreeWord), Parens(BinaryWord)}

\* the widths a caller sets
WidthSetArgs == {3, 8, 12, 20}

NextFmt ==
    \/ \E dtype \in {"int", "float32"} : NewUtil2d(dtype, ScalarArg("int", R(5)), R(1), None)
    \/ \E value \in ColumnTexts(u.dtype) \cup ModeTexts : SetFmtin(value)
    \/ \E b \in BOOLEAN : SetAttrBinary(b)
    \/ \E b \in BOOLEAN : SetAttrFree(b)
    \/ \E text \in ColumnTexts(u.dtype) \cup ModeTexts : SetAttrFortran(text)
    \/ \E n \in 1..(NCol + 1) : SetAttrNpl(n)
    \/ \E n \in WidthSetArgs : SetAttrWidth(n)
    \/ \E n \in {2, 4, 8} : SetAttrDecimal(n)
    \/ \E code \in {"I", "G", "E", "F", "f", "X"} : SetAttrFormat(code)

SpecFmt == Init /\ [][NextFmt]_vars

\* the last call set the attribute key of the format, and succeeded
SetAttr(key) == Called("setattr") /\ Get(res).key = key /\ Get(res).ok

\* C13: the free flag and the binary flag of a format are never both on;
\* turning one on (binary = True, free = True, or the descriptor of that
\* mode) leaves the other off; after a column descriptor is assigned neither
\* is on, and fortran reports the mode selected last.
C13_FormatModeExclusive ==
    u.vtype # "" =>
        /\ ~(u.format.isfree /\ u.format.isbinary)
        /\ (SetAttr("binary") /\ Get(res).flag) =>
               u.format.isbinary /\ ~u.format.isfree
        /\ (SetAttr("free") /\ Get(res).flag) =>
               u.format.isfree /\ ~u.format.isbinary
        /\ (SetAttr("fortran") /\ Get(res).text = Parens(FreeWord)) =>
               /\ u.format.isfree /\ ~u.format.isbinary
               /\ _get_fortran_format(u.format) = Parens(FreeWord)
        /\ (SetAttr("fortran") /\ Get(res).text = Parens(BinaryWord)) =>
               /\ u.format.isbinary /\ ~u.format.isfree
               /\ _get_fortran_format(u.format) = Parens(BinaryWord)
        /\ (SetAttr("fortran") /\ Get(res).text \in ColumnTexts(u.dtype)) =>
               /\ ~u.format.isfree /\ ~u.format.isbinary
               /\ _get_fortran_format(u.format) \notin ModeTexts

----------------------------------------------------------------------------
(* Util2d.parse_control_record on fixed-width records                      *)

\* the multiplier field of a record and the number it denotes
MultiplierArgs(dtype) ==
    IF dtype = "int"
    THEN {<<(<<"1">>), R(1)>>, <<(<<"3">>), R(3)>>, <<(<<"0">>), R(0)>>}
    ELSE {<<(<<"1", ".", "0">>), R(1)>>, <<(<<"2", ".", "5">>), Rat(5, 2)>>,
          <<(<<"0", ".", "0">>), R(0)>>}

\* the print flag field: a number, or a text that is none
IprnArgs == {<<"-", "1">>, <<"3">>, <<"x", "x">>, <<>>}

\* columns 0-10, 10-20, 20-40 and 40-50 of a fixed-width record
FixedLine(locat, mult, fmtin, iprn) ==
    RJust(IntStr(locat), 10) \o RJust(mult, 10) \o RJust(fmtin, 20) \o RJust(iprn, 10)
    \o <<"\n">>

\* r = Util2d.parse_control_record(line, current_unit, dtype) for a
\* fixed-width line written from locat, a multiplier, a descriptor and a
\* print flag
ParseFixed(locat, mult, fmtin, iprn, current_unit, dtype) ==
    /\ res = None
    /\ res' = Some([op |-> "parse_fixed", locat |-> locat, cnstnt |-> mult[2],
                    fmtin |-> fmtin, iprn |-> iprn, current_unit |-> current_unit,
                    dtype |-> dtype,
                    r |-> parse_control_record(FixedLine(locat, mult[1], fmtin, iprn),
                                               current_unit, dtype, <<>>, None)])
    /\ UNCHANGED <<m, heap, fs, u, arr, entry, w, entry2, t2d, u3d>>

NextCR ==
    \E locat \in {0, -12, PackageUnit, 12}, dtype \in {"int", "float32"},
       fmtin \in {ColumnDescriptor(Some(2), "I", 5, None), Parens(FreeWord)},
       iprn \in IprnArgs, current_unit \in {None, Some(PackageUnit)} :
        \E mult \in MultiplierArgs(dtype) :
            ParseFixed(locat, mult, fmtin, iprn, current_unit, dtype)

SpecCR == Init /\ [][NextCR]_vars

\* C14: a fixed-width record is of type constant for locat = 0, external
\* with unit |locat| and descriptor (binary) for locat < 0, internal for a
\* positive locat equal to the current unit, and external with unit locat
\* for any other positive locat, also when no current unit is known; the
\* multiplier is the number of columns 10-20; the descriptor of columns
\* 20-40 and the print flag of columns 40-50 (0 when it is no number) are
\* read only for locat # 0.
C14_FixedRecordClassification ==
    Called("parse_fixed") =>
        \A x \in {Get(res)} :
            /\ x.r.ok
            /\ x.locat = 0 =>
                   x.r.type = "constant" /\ x.r.fmtin = None /\ x.r.iprn = -1
            /\ x.locat < 0 =>
                   /\ x.r.type = "external"
                   /\ x.r.nunit = Some(-x.locat)
                   /\ x.r.fmtin = Some(Parens(Lower(BinaryWord)))
            /\ (x.locat > 0 /\ x.current_unit = Some(x.locat)) => x.r.type = "internal"
            /\ (x.locat > 0 /\ x.current_unit # Some(x.locat)) =>
                   x.r.type = "external" /\ x.r.nunit = Some(x.locat)
            /\ x.locat > 0 => x.r.fmtin = Some(x.fmtin)
            /\ x.locat # 0 =>
                   x.r.iprn = (IF ParseInt(x.iprn).ok THEN ParseInt(x.iprn).v[1] ELSE 0)
            /\ (x.dtype = "float32" \/ x.cnstnt # R(0)) => x.r.cnstnt = Some(x.cnstnt)

\* C14 witness: a record with a positive locat that is the current unit was
\* read as internal, with a print flag that is no number read as 0
C14_Witness ==
    /\ Called("parse_fixed")
    /\ Get(res).locat = PackageUnit
    /\ Get(res).current_unit = Some(PackageUnit)
    /\ Get(res).iprn = <<"x", "x">>
    /\ Get(res).r.ok
    /\ Get(res).r.type = "internal"
    /\ Get(res).r.iprn = 0

----------------------------------------------------------------------------
(* Util2d.load_txt on lines of touching fixed-width fields                 *)

\* fields of exactly w digits and the numbers they denote
DigitFields(width) ==
    IF width = 1 THEN {<<(<<"1">>), 1>>, <<(<<"0">>), 0>>}
    ELSE IF width = 2 THEN {<<(<<"1", "2">>), 12>>, <<(<<"0", "7">>), 7>>}
    ELSE {<<(<<"1", "2", "3", "4", "5">>), 12345>>, <<(<<"6", "7", "8", "9", "0">>), 67890>>}

\* the most fields on a line
MaxNpl == 3

\* the fields of a row one after the other, no delimiter, and a line break
RECURSIVE TouchingLine(_)
TouchingLine(row) ==
    IF row = <<>> THEN <<"\n">> ELSE Head(row)[1] \o TouchingLine(Tail(row))

RECURSIVE TouchingLines(_)
TouchingLines(rows) ==
    IF rows = <<>> THEN <<>> ELSE TouchingLine(Head(rows)) \o TouchingLines(Tail(rows))

\* a = Util2d.load_txt((nrow, n), file, dtype, fmtin) for a file of nrow
\* lines of n touching fields of the width of fmtin
LoadTouching(rows, width, dtype) ==
    /\ res = None
    /\ res' = Some([op |-> "load_txt", rows |-> rows, width |-> width, dtype |-> dtype,
                    r |-> load_txt(<<Len(rows), Len(rows[1])>>, TouchingLines(rows), dtype,
                                   IF dtype = "int"
                                   THEN ColumnDescriptor(Some(Len(rows[1])), "I", width, None)
                                   ELSE ColumnDescriptor(Some(Len(rows[1])), "F", width,
                                                         Some(0)))])
    /\ UNCHANGED <<m, heap, fs, u, arr, entry, w, entry2, t2d, u3d>>

NextTxt ==
    \E width \in {1, 2, 5}, nrow \in 1..2, n \in 1..MaxNpl, dtype \in {"int", "float32"} :
        \E rows \in [1..nrow -> [1..n -> DigitFields(width)]] :
            LoadTouching(rows, width, dtype)

SpecTxt == Init /\ [][NextTxt]_vars

\* C15: load_txt cuts a line of a fixed descriptor into consecutive slices
\* of the width, with no delimiter: lines of n fields of exactly w digits
\* give those n values in order, and the line 123456789012345 with w = 5
\* and n = 3 gives 12345, 67890, 12345.
C15_TouchingFields ==
    Called("load_txt") =>
        \A x \in {Get(res)} :
            /\ x.r.ok
            /\ Len(x.r.data) = Len(x.rows)
            /\ \A i \in 1..Len(x.rows) :
                   /\ Len(x.r.data[i]) = Len(x.rows[i])
                   /\ \A j \in 1..Len(x.rows[i]) : x.r.data[i][j] = R(x.rows[i][j][2])

\* C15 witness: the line 123456789012345 was read with width 5 and three
\* items per line as 12345, 67890, 12345
C15_Witness ==
    /\ Called("load_txt")
    /\ TouchingLines(Get(res).rows)
           = <<"1", "2", "3", "4", "5", "6", "7", "8", "9", "0", "1", "2", "3", "4", "5",
               "\n">>
    /\ Get(res).dtype = "int"
    /\ Get(res).r.ok
    /\ Get(res).r.data = <<(<<R(12345), R(67890), R(12345)>>)>>

----------------------------------------------------------------------------
(* Util2d.__setitem__ on grids with a multiplier                           *)

\* multipliers other than 0 and 1
ScalingArgs == {R(2), R(3)}

\* before = u.array; u[k] = value; after = u.array
AssignAndRead(k, value) ==
    /\ u.vtype # ""
    /\ Len(heap) < MaxHeap
    /\ \E before \in {Util2d_array(u, heap, fs)},
          r \in {Util2d__setitem__(u, k, value, heap, fs)} :
           /\ before.ok
           /\ r.ok
           /\ u' = r.u
           /\ heap' = r.heap
           /\ res' = Some([op |-> "setitem", k |-> k, value |-> value,
                           cnstnt |-> u.cnstnt, dtype |-> u.dtype,
                           before |-> before.data,
                           after |-> Util2d_array(r.u, r.heap, fs).data])
    /\ UNCHANGED <<m, fs, arr, entry, w, entry2, t2d, u3d>>

NextItem ==
    \/ \E dtype \in {"int", "float32"}, value \in ValueArgs, cnstnt \in ScalingArgs :
          NewUtil2d(dtype, value, cnstnt, None)
    \/ \E i \in 0..(NRow - 1), j \in 0..(NCol - 1), value \in {R(7), R(9)} :
          AssignAndRead(<<i, j>>, value)

SpecItem == Init /\ [][NextItem]_vars

\* C16: on a grid with a multiplier other than 0 and 1, after grid[k] = v
\* the property array is v at k and what it was (raw times the multiplier)
\* at every other index, after any number of successive assignments.
C16_ItemAssignmentKeepsMultiplierOut ==
    Called("setitem") =>
        \A x \in {Get(res)} :
            \A i \in 1..NRow : \A j \in 1..NCol :
                x.after[i][j] = (IF <<i - 1, j - 1>> = x.k THEN x.value
                                 ELSE x.before[i][j])

----------------------------------------------------------------------------
(* Util2d: the cache __value_built of scalar and file-backed grids         *)

\* what a.dat holds after somebody rewrote it
RewrittenText ==
    array2string(Shape2d, Full(Shape2d, R(9)), "float32",
                 _get_python_format(ArrayFormat__init__(Shape2d, "float32", None).af)).text

\* the last item assignment a call record carries on
LastAssigned == IF Called("cache") THEN Get(res).last ELSE None

\* the record of one request on u: was and now are __value_built before and
\* after it, data the array of a request of _array, last the last item
\* assignment before it
CacheRecord(via, ok, now, data, last) ==
    Some([op |-> "cache", via |-> via, ok |-> ok, was |-> u.value_built, now |-> now,
          data |-> data, last |-> last])

\* a = u._array
ReadRaw ==
    /\ u.vtype # ""
    /\ \E r \in {Util2d__array(u, heap, fs)} :
           /\ u' = (IF r.ok THEN r.u ELSE u)
           /\ res' = CacheRecord("_array", r.ok, u'.value_built, r.data, LastAssigned)
    /\ UNCHANGED <<m, heap, fs, arr, entry, w, entry2, t2d, u3d>>

\* a = u.array
ReadScaled ==
    /\ u.vtype # ""
    /\ \E r \in {Util2d_array(u, heap, fs)} :
           /\ u' = (IF r.ok THEN r.u ELSE u)
           /\ res' = CacheRecord("array", r.ok, u'.value_built, <<>>, LastAssigned)
    /\ UNCHANGED <<m, heap, fs, arr, entry, w, entry2, t2d, u3d>>

\* s = u.string
ReadString ==
    /\ u.vtype # ""
    /\ \E r \in {Util2d_string(u, heap, fs)} :
           /\ u' = r.u
           /\ res' = CacheRecord("string", r.ok, u'.value_built, <<>>, LastAssigned)
    /\ UNCHANGED <<m, heap, fs, arr, entry, w, entry2, t2d, u3d>>

\* u.get_file_entry(how), the entry dropped
RenderAgain(how) ==
    /\ u.vtype # ""
    /\ Len(m.external) < MaxExternal
    /\ \E r \in {get_file_entry(u, how, m, heap, fs)} :
           /\ u' = r.u
           /\ m' = r.m
           /\ fs' = r.fs
           /\ res' = CacheRecord("render", r.ok, u'.value_built, <<>>, LastAssigned)
    /\ UNCHANGED <<heap, arr, entry, w, entry2, t2d, u3d>>

\* u[k] = value
AssignItemTo(k, value) ==
    /\ u.vtype # ""
    /\ Len(heap) < MaxHeap
    /\ \E r \in {Util2d__setitem__(u, k, value, heap, fs)} :
           /\ r.ok
           /\ u' = r.u
           /\ heap' = r.heap
           /\ res' = CacheRecord("setitem", TRUE, u'.value_built, <<>>, Some(<<k, value>>))
    /\ UNCHANGED <<m, fs, arr, entry, w, entry2, t2d, u3d>>

\* somebody else rewrites the file a.dat
Rewrite ==
    /\ fs[DataFile] = TextFile(DataFileText)
    /\ fs' = WriteFile(fs, DataFile, TextFile(RewrittenText))
    /\ UNCHANGED <<m, heap, u, arr, entry, w, entry2, t2d, u3d, res>>

NextCache ==
    \/ \E dtype \in {"int", "float32"}, cnstnt \in {R(1), R(3)},
          value \in {ScalarArg("int", R(5)), ScalarArg("float", Rat(5, 2)),
                     StrArg(DataFile)} :
          NewUtil2d(dtype, value, cnstnt, None)
    \/ ReadRaw
    \/ ReadScaled
    \/ ReadString
    \/ \E how \in {None, Some("internal"), Some("constant"), Some("external")} :
          RenderAgain(how)
    \/ \E value \in {R(7), R(8)} : AssignItemTo(<<0, 1>>, value)
    \/ Rewrite

SpecCache == InitT2d /\ [][NextCache]_vars

\* C17: on a scalar or file-backed grid the array built by a request of
\* array, _array, string or a render is kept, and no later request builds
\* or reads it again while no item is assigned; an item assignment clears
\* the cache, and every _array after it has the assigned value at its index.
C17_CachedUntilAssigned ==
    Called("cache") =>
        \A x \in {Get(res)} :
            /\ x.was # None /\ x.via # "setitem" => x.now = x.was
            /\ x.ok /\ x.last = None /\ x.via \in {"array", "_array", "string"} =>
                   x.now # None
            /\ x.ok /\ x.last = None /\ x.via = "_array" => x.data = Get(x.now)
            /\ x.via = "setitem" => x.now = None
            /\ x.ok /\ x.last # None /\ x.via = "_array" =>
                   /\ x.now = None
                   /\ x.data[Get(x.last)[1][1] + 1][Get(x.last)[1][2] + 1]
                          = CastNum(u.dtype, Get(x.last)[2])

\* C17 witness: a.dat was rewritten after a file-backed grid had read it, and
\* a later _array returned the rows read first
C17_Witness ==
    /\ Called("cache")
    /\ Get(res).via = "_array"
    /\ Get(res).ok
    /\ u.vtype = "str"
    /\ fs[DataFile] = TextFile(RewrittenText)
    /\ Get(res).was # None
    /\ Get(res).data = RampData

\* C17 witness: an item was assigned on a grid with a filled cache, and a
\* later _array has the assigned value
C17_WitnessAssigned ==
    /\ Called("cache")
    /\ Get(res).via = "_array"
    /\ Get(res).last = Some(<<(<<0, 1>>), R(7)>>)
    /\ Get(res).data[1][2] = R(7)
    /\ u.value_built = None

----------------------------------------------------------------------------
(* Util2d.get_file_entry on text and binary grids, in containers with and  *)
(* without an external path                                                *)

HasPrefix(t, p) == Len(t) >= Len(p) /\ SubSeq(t, 1, Len(p)) = p

HowArgs == {None, Some("constant"), Some("internal"), Some("external"), Some("openclose")}

\* a scalar, a uniform array, an array of distinct elements, an existing file
ExtValueArgs == {ScalarArg("int", R(5)), ArrayArg(1), ArrayArg(3), StrArg(DataFile)}

\* entry = u.get_file_entry(how), or the exception it raises; u0, m0 and fs0
\* are the grid, the container and the files as they were before the call
RenderExt(how) ==
    /\ u.vtype # ""
    /\ Len(m.external) < MaxExternal
    /\ \E r \in {get_file_entry(u, how, m, heap, fs)} :
           /\ res' = Some([op |-> "render", how |-> how, ok |-> r.ok, text |-> r.text,
                           u0 |-> u, m0 |-> m, fs0 |-> fs])
           /\ u' = r.u
           /\ m' = r.m
           /\ fs' = r.fs
    /\ UNCHANGED <<heap, arr, entry, w, entry2, t2d, u3d>>

\* somebody else removes the file a.dat a grid was built on
RemoveSource ==
    /\ Called("init2d")
    /\ Exists(fs, DataFile)
    /\ fs' = RemoveFile(fs, DataFile)
    /\ UNCHANGED <<m, heap, u, arr, entry, w, entry2, t2d, u3d, res>>

NextExt ==
    \/ \E dtype \in {"int", "float32"}, value \in ExtValueArgs, bin \in BOOLEAN,
          how \in HowArgs :
          Construct(dtype, value, bin, how)
    \/ \E how \in HowArgs : RenderExt(how)
    \/ RemoveSource

SpecExt == InitExt /\ [][NextExt]_vars

\* the strategy a render was asked for: the override, or the stored one
AskedHow(x) == IF x.how # None THEN Get(x.how) ELSE x.u0.how

\* C18: when the format of a grid is binary and the strategy asked for is
\* constant or internal, get_file_entry renders an OPEN/CLOSE record in a
\* free-format container and an external record (a negative unit,
\* registered) in a fixed-format one, never an INTERNAL or CONSTANT record;
\* no render changes the stored strategy.
C18_BinaryNeverInline ==
    Called("render") =>
        \A x \in {Get(res)} :
            /\ u.how = x.u0.how
            /\ x.u0.format.isbinary /\ AskedHow(x) \in {"constant", "internal"} =>
                   /\ ~HasPrefix(x.text, KwInternal)
                   /\ ~HasPrefix(x.text, KwConstant)
                   /\ x.ok /\ x.m0.free_format =>
                          /\ HasPrefix(x.text, KwOpenClose)
                          /\ m = x.m0
                   /\ x.ok /\ ~x.m0.free_format =>
                          /\ HasPrefix(x.text, RJust(IntStr(-x.m0.next_unit), 10))
                          /\ Len(m.external) = Len(x.m0.external) + 1

\* C18 witness: a binary grid with the stored strategy constant was rendered
\* in a free-format container as an OPEN/CLOSE record
C18_Witness ==
    /\ Called("render")
    /\ Get(res).ok
    /\ Get(res).u0.format.isbinary
    /\ Get(res).how = None
    /\ Get(res).u0.how = "constant"
    /\ Get(res).m0.free_format
    /\ HasPrefix(Get(res).text, KwOpenClose)

\* C18 witness: a binary grid asked for internal was rendered in a
\* fixed-format container as an external record
C18_WitnessFixed ==
    /\ Called("render")
    /\ Get(res).ok
    /\ Get(res).u0.format.isbinary
    /\ Get(res).how = Some("internal")
    /\ ~Get(res).m0.free_format
    /\ Len(m.external) = Len(Get(res).m0.external) + 1

\* C19: a render asked for openclose in a container that is not free-format
\* raises and leaves the files, the container's units and its registered
\* entries as they were; a grid built with how = openclose in such a
\* container is rejected at construction.
C19_OpenCloseNeedsFreeFormat ==
    /\ Called("render") =>
           \A x \in {Get(res)} :
               AskedHow(x) = "openclose" /\ ~x.m0.free_format =>
                   /\ ~x.ok
                   /\ fs = x.fs0
                   /\ m = x.m0
    /\ Called("init2d") =>
           \A x \in {Get(res)} :
               x.how = Some("openclose") /\ ~m.free_format => ~x.ok

\* the unit an external render registers: the container's next unit, negated
\* for a binary format
RegisteredUnit(x) ==
    IF x.u0.format.isbinary THEN -x.m0.next_unit ELSE x.m0.next_unit

\* C20: a successful render of external or openclose leaves the backing file
\* in place (written from the array when the value is no file name, a copy
\* of the named file when that is another path than the target, a target
\* that was there replaced); a successful external render takes exactly one
\* unit from the container and registers exactly one entry (path, unit,
\* binary), the unit negated for a binary format, and an openclose render
\* none; when the file cannot be written or copied the render fails with no
\* unit taken and nothing registered.
C20_FileBeforeRecord ==
    Called("render") =>
        \A x \in {Get(res)} :
        \A h \in {ResolveHow(x.u0, x.m0, x.how)} :
        \A target \in {python_file_path(x.u0, x.m0)} :
            h \in {"external", "openclose"} /\ (h = "openclose" => x.m0.free_format) =>
                /\ x.ok /\ x.u0.vtype # "str" =>
                       /\ Exists(fs, target)
                       /\ fs[NormPath(target)].bin = x.u0.format.isbinary
                       /\ x.u0.format.isbinary =>
                              fs[NormPath(target)].data
                                  = Util2d__array(x.u0, heap, x.fs0).data
                       /\ ~x.u0.format.isbinary => fs[NormPath(target)].text # <<>>
                /\ x.ok /\ x.u0.vtype = "str" /\ x.u0.path # target =>
                       /\ Exists(x.fs0, x.u0.path)
                       /\ Exists(fs, target)
                       /\ fs[NormPath(target)] = x.fs0[NormPath(x.u0.path)]
                /\ x.ok /\ h = "external" =>
                       /\ m.next_unit = x.m0.next_unit + 1
                       /\ m.external
                              = Append(x.m0.external,
                                       <<model_file_path(x.u0, x.m0), RegisteredUnit(x),
                                         x.u0.format.isbinary>>)
                       /\ IF x.m0.free_format
                          THEN HasPrefix(x.text, KwExternal \o <<" ", " ">>
                                                 \o RJust(IntStr(RegisteredUnit(x)), 30))
                          ELSE HasPrefix(x.text, RJust(IntStr(RegisteredUnit(x)), 10))
                /\ x.ok /\ h = "openclose" => m = x.m0
                /\ ~ExternalFile(x.u0, target, heap, x.fs0).ok =>
                       /\ ~x.ok
                       /\ m = x.m0

\* C20 witness: a binary grid was rendered external a second time: the file
\* is a binary dump and the second entry carries the negated second unit
C20_Witness ==
    /\ Called("render")
    /\ Get(res).ok
    /\ ResolveHow(Get(res).u0, Get(res).m0, Get(res).how) = "external"
    /\ Get(res).u0.format.isbinary
    /\ Get(res).u0.vtype # "str"
    /\ Len(m.external) = 2
    /\ m.external[2][2] = -Get(res).m0.next_unit
    /\ fs[NormPath(python_file_path(Get(res).u0, Get(res).m0))].bin

\* C20 witness: the named file was gone when an external render was to copy
\* it, and the render failed with no unit taken
C20_WitnessCopyFailed ==
    /\ Called("render")
    /\ ~Get(res).ok
    /\ ResolveHow(Get(res).u0, Get(res).m0, Get(res).how) = "external"
    /\ Get(res).u0.vtype = "str"
    /\ Get(res).u0.path # python_file_path(Get(res).u0, Get(res).m0)
    /\ ~Exists(Get(res).fs0, Get(res).u0.path)
    /\ m = Get(res).m0

\* C20 witness: a text grid could not be written with its fixed descriptor,
\* and the external render failed with no unit taken
C20_WitnessWriteFailed ==
    /\ Called("render")
    /\ ~Get(res).ok
    /\ ResolveHow(Get(res).u0, Get(res).m0, Get(res).how) = "external"
    /\ Get(res).u0.vtype # "str"
    /\ m = Get(res).m0

\* C20 witness: a named file was copied over a target that was there
C20_WitnessReplaced ==
    /\ Called("render")
    /\ Get(res).ok
    /\ Get(res).u0.vtype = "str"
    /\ Get(res).u0.path # python_file_path(Get(res).u0, Get(res).m0)
    /\ Exists(Get(res).fs0, python_file_path(Get(res).u0, Get(res).m0))

----------------------------------------------------------------------------
(* Util3d.__setattr__ and Transient2d.__setattr__: cnstnt, fmtin and how   *)
(* set on a composite                                                      *)

\* str.lower() on the strategy names a caller passes
LowerHow(value) == IF value = "INTERNAL" THEN "internal" ELSE value

\* Util2d.__setattr__ for the keys cnstnt, fmtin/format and how; num, text
\* and how carry the value of the key: [ok, u]
Util2d__setattr__(g, key, num, text, how) ==
    CASE key = "cnstnt" -> [ok |-> TRUE, u |-> [g EXCEPT !.cnstnt = num]]
      [] key = "fmtin" -> Util2d__setattr__fmtin(g, text)
      [] key = "how" ->
           IF LowerHow(how) \in acceptable_hows
           THEN [ok |-> TRUE, u |-> [g EXCEPT !.how = LowerHow(how)]]
           ELSE [ok |-> FALSE, u |-> g]

\* a loop that sets the attribute on the first grid only
RECURSIVE SetFirst(_, _, _, _, _, _)
SetFirst(grids, i, key, num, text, how) ==
    IF i > Len(grids) \/ i > 1 THEN [ok |-> TRUE, grids |-> grids]
    ELSE With(Util2d__setattr__(grids[i], key, num, text, how), LAMBDA r :
             IF ~r.ok THEN [ok |-> FALSE, grids |-> grids]
             ELSE SetFirst([grids EXCEPT ![i] = r.u], i + 1, key, num, text, how))

\* the loop `for u2d in ...: u2d.<key> = value` from the i-th grid on; an
\* exception leaves the grids before i set: [ok, grids]
RECURSIVE SetEach(_, _, _, _, _, _)
SetEach(grids, i, key, num, text, how) ==
    IF i > Len(grids) THEN [ok |-> TRUE, grids |-> grids]
    ELSE With(Util2d__setattr__(grids[i], key, num, text, how), LAMBDA r :
             IF ~r.ok THEN [ok |-> FALSE, grids |-> grids]
             ELSE SetEach([grids EXCEPT ![i] = r.u], i + 1, key, num, text, how))

\* Util3d.__setattr__ for the keys cnstnt, fmtin and how: [ok, t]
Util3d__setattr__(t, key, num, text, how) ==
    With(SetEach(t.util_2ds, 1, key, num, text, how), LAMBDA r :
        [ok |-> r.ok, t |-> [t EXCEPT !.util_2ds = r.grids]])

\* the keys of a dict in ascending order
RECURSIVE KeysInOrder(_)
KeysInOrder(keys) ==
    IF keys = {} THEN <<>>
    ELSE With(CHOOSE k \in keys : \A q \in keys : k <= q, LAMBDA k :
             <<k>> \o KeysInOrder(keys \ {k}))

\* Transient2d.__setattr__ for the keys cnstnt, fmtin and how: the loop over
\* transient_2ds, then the attribute of the composite itself: [ok, t]
Transient2d__setattr__(t, key, num, text, how) ==
    With(KeysInOrder(DOMAIN t.seq), LAMBDA ks :
    With(SetEach([i \in 1..Len(ks) |-> t.seq[ks[i]]], 1, key, num, text, how), LAMBDA r :
        [ok |-> r.ok,
         t |-> [t EXCEPT !.seq = [q \in DOMAIN t.seq |->
                                     r.grids[CHOOSE i \in 1..Len(ks) : ks[i] = q]],
                         !.fmtin = IF r.ok /\ key = "fmtin" THEN Some(text) ELSE @]]))

\* the record of a composite's attribute set: before holds the grids as they
\* were
BroadcastRecord(op, key, num, text, how, ok, before) ==
    Some([op |-> op, key |-> key, num |-> num, text |-> text, how |-> how, ok |-> ok,
          before |-> before])

\* u3d.<key> = value, or the exception it raises
SetAttr3d(key, num, text, how) ==
    /\ u3d.made
    /\ \E r \in {Util3d__setattr__(u3d.obj, key, num, text, how)} :
           /\ u3d' = [u3d EXCEPT !.obj = r.t]
           /\ res' = BroadcastRecord("setattr3d", key, num, text, how, r.ok,
                                     u3d.obj.util_2ds)
    /\ UNCHANGED <<m, heap, fs, u, arr, entry, w, entry2, t2d>>

\* t2d.<key> = value, or the exception it raises
SetAttrT2d(key, num, text, how) ==
    /\ t2d.made
    /\ \E r \in {Transient2d__setattr__(t2d, key, num, text, how)} :
           /\ t2d' = r.t
           /\ res' = BroadcastRecord("setattr_t2d", key, num, text, how, r.ok, t2d.seq)
    /\ UNCHANGED <<m, heap, fs, u, arr, entry, w, entry2, u3d>>

\* the strategy names a caller passes, one in upper case and one unknown
HowNames == {"constant", "internal", "external", "openclose", "INTERNAL", "bogus"}

\* the descriptors a caller sets on a composite of the dtype
BroadcastFmtin(dtype) == FmtinArgs(dtype) \cup {Parens(FreeWord)}

NextBroadcast ==
    \/ \E nlay \in 1..MaxLay, dtype \in {"int", "float32"},
          value \in {ScalarArg("int", R(5)), ArrayArg(1), ArrayArg(2)} :
          NewUtil3d(nlay, dtype, value)
    \/ \E dtype \in {"int", "float32"},
          value \in {DictArg(<<(<<ScalarArg("int", R(0)), ArrayArg(1)>>),
                               (<<ScalarArg("int", R(3)), ArrayArg(2)>>)>>),
                     DictArg(<<(<<ScalarArg("int", R(1)), ScalarArg("int", R(5))>>)>>),
                     ArrayArg(2), StrArg(DataFile)} :
          NewTransient2d(dtype, value)
    \/ \E num \in {R(3), Rat(1, 2)} : SetAttr3d("cnstnt", num, <<>>, "")
    \/ u3d.made /\ \E text \in BroadcastFmtin(u3d.obj.dtype) :
                        SetAttr3d("fmtin", R(0), text, "")
    \/ \E how \in HowNames : SetAttr3d("how", R(0), <<>>, how)
    \/ \E num \in {R(3), Rat(1, 2)} : SetAttrT2d("cnstnt", num, <<>>, "")
    \/ t2d.made /\ \E text \in BroadcastFmtin(t2d.dtype) :
                        SetAttrT2d("fmtin", R(0), text, "")
    \/ \E how \in HowNames : SetAttrT2d("how", R(0), <<>>, how)

SpecBroadcast == InitT2d /\ [][NextBroadcast]_vars

\* a grid has the attribute a composite was set
HasAttr(g, x) ==
    CASE x.key = "cnstnt" -> g.cnstnt = x.num
      [] x.key = "fmtin" -> _get_fortran_format(g.format) = x.text
      [] x.key = "how" ->
           g.how = (IF x.how = "INTERNAL" THEN "internal" ELSE x.how)

\* C21: after fmtin, cnstnt or how is set on a Util3d or a Transient2d every
\* layer grid and every period grid has that descriptor, multiplier or
\* strategy; an unknown strategy name raises and leaves every grid as it
\* was.
C21_CompositeBroadcast ==
    /\ Called("setattr3d") =>
           \A x \in {Get(res)} :
               /\ x.key = "how" /\ x.how = "bogus" =>
                      ~x.ok /\ u3d.obj.util_2ds = x.before
               /\ ~(x.key = "how" /\ x.how = "bogus") =>
                      /\ x.ok
                      /\ \A l \in 1..Len(u3d.obj.util_2ds) :
                             HasAttr(u3d.obj.util_2ds[l], x)
    /\ Called("setattr_t2d") =>
           \A x \in {Get(res)} :
               /\ x.key = "how" /\ x.how = "bogus" => ~x.ok /\ t2d.seq = x.before
               /\ ~(x.key = "how" /\ x.how = "bogus") =>
                      /\ x.ok
                      /\ \A q \in DOMAIN t2d.seq : HasAttr(t2d.seq[q], x)

\* C21 witness: how = "external" was set on a Util3d of three layers whose
\* strategy was another
C21_Witness ==
    /\ Called("setattr3d")
    /\ Get(res).ok
    /\ Get(res).key = "how"
    /\ Get(res).how = "external"
    /\ Len(u3d.obj.util_2ds) = MaxLay
    /\ \A l \in 1..MaxLay :
           Get(res).before[l].how # "external" /\ u3d.obj.util_2ds[l].how = "external"

\* C21 witness: a descriptor was set on a Transient2d of two periods
C21_WitnessT2d ==
    /\ Called("setattr_t2d")
    /\ Get(res).ok
    /\ Get(res).key = "fmtin"
    /\ DOMAIN t2d.seq = {0, 3}
    /\ \A q \in {0, 3} : _get_fortran_format(t2d.seq[q].format) = Get(res).text
    /\ t2d.seq # Get(res).before

----------------------------------------------------------------------------
(* ArrayFormat: the code and the decimal of a format                       *)

\* the descriptors (10I5), (10F15) and (10F15.6)
DecimalTexts ==
    {ColumnDescriptor(Some(10), "I", 5, None), ColumnDescriptor(Some(10), "F", 15, None),
     ColumnDescriptor(Some(10), "F", 15, Some(6))}

NextDec ==
    \/ \E dtype \in {"int", "float32"} : NewUtil2d(dtype, ScalarArg("int", R(5)), R(1), None)
    \/ \E value \in DecimalTexts \cup ModeTexts : SetFmtin(value)
    \/ \E b \in BOOLEAN : SetAttrBinary(b)
    \/ \E b \in BOOLEAN : SetAttrFree(b)
    \/ \E text \in DecimalTexts \cup ModeTexts : SetAttrFortran(text)
    \/ \E n \in {2, 4, 8} : SetAttrDecimal(n)
    \/ \E code \in {"I", "G", "E", "F"} : SetAttrFormat(code)

SpecDec == Init /\ [][NextDec]_vars

\* C22: after a format is made of the defaults of a dtype or of a
\* descriptor such as (10I5), (10F15) or (10F15.6), and after any sequence of
\* sets of format, decimal, fortran, binary and free, the decimal is absent
\* exactly when the code is I and is set when the code is G, E or F.
C22_DecimalIffNotInteger ==
    u.vtype # "" => (u.format.decimal = None <=> u.format.format = "I")

----------------------------------------------------------------------------
(* ArrayFormat.__setattr__: the key width                                  *)

\* C23: on a float32 format a width below the decimal raises and leaves the
\* width as it was, and any other width is stored and read back, below the
\* default width or not; on an int format every positive width is stored
\* and read back.
C23_WidthSetter ==
    [][\A n \in WidthSetArgs :
           SetAttrWidth(n) =>
               \A r \in {Get(res')} :
                   /\ u.dtype = "float32" /\ u.format.decimal # None =>
                          IF n < Get(u.format.decimal)
                          THEN ~r.ok /\ u'.format.width = u.format.width
                          ELSE r.ok /\ u'.format.width = n
                   /\ u.dtype = "int" => r.ok /\ u'.format.width = n]_vars

----------------------------------------------------------------------------
(* Util2d.load_txt and Util3d.load on streams that go on after the array   *)

\* the i-th value of a stream, from 1
StreamValue(i) == 3 * i + 10

\* the width of the fields of a fixed-width stream
FieldWidth == 3

\* the most lines a stream goes on after the values the array needs
MaxExtra == 4

\* the text of the i-th value: a field of FieldWidth, or a blank and the
\* digits
TokenText(i, fixed) ==
    IF fixed THEN RJust(NatStr(StreamValue(i)), FieldWidth)
    ELSE <<" ">> \o NatStr(StreamValue(i))

\* the line of the values from..to
RECURSIVE LineOf(_, _, _)
LineOf(from, to, fixed) ==
    IF from > to THEN <<"\n">> ELSE TokenText(from, fixed) \o LineOf(from + 1, to, fixed)

\* the lines of the values from..to, per values on a line, the last line
\* shorter when they run out
RECURSIVE LinesOf(_, _, _, _)
LinesOf(from, to, per, fixed) ==
    IF from > to THEN <<>>
    ELSE <<LineOf(from, IF from + per - 1 < to THEN from + per - 1 ELSE to, fixed)>>
         \o LinesOf(from + per, to, per, fixed)

RECURSIVE JoinLines(_)
JoinLines(lines) == IF lines = <<>> THEN <<>> ELSE Head(lines) \o JoinLines(Tail(lines))

\* the descriptor of a stream
StreamFmtin(per, dtype, fixed) ==
    IF ~fixed THEN Parens(FreeWord)
    ELSE IF dtype = "int" THEN ColumnDescriptor(Some(per), "I", FieldWidth, None)
    ELSE ColumnDescriptor(Some(per), "F", FieldWidth, Some(0))

\* a = Util2d.load_txt((nrow, ncol), f, dtype, fmtin) on a stream f of
\* nrow * ncol + extra values, per values on a line
LoadStream(nrow, ncol, per, extra, dtype, fixed) ==
    /\ res = None
    /\ res' = Some([op |-> "load_stream", nrow |-> nrow, ncol |-> ncol, per |-> per,
                    extra |-> extra, dtype |-> dtype, fixed |-> fixed,
                    r |-> load_txt(<<nrow, ncol>>,
                                   JoinLines(LinesOf(1, nrow * ncol + extra, per, fixed)),
                                   dtype, StreamFmtin(per, dtype, fixed))])
    /\ UNCHANGED <<m, heap, fs, u, arr, entry, w, entry2, t2d, u3d>>

\* the line that follows the blocks of a package file
EndLine == <<"e", "n", "d", "\n">>

\* the control record of an internal block: multiplier 1, free descriptor
InternalRecord ==
    KwInternal \o <<" ", "1", " ">> \o Parens(FreeWord) \o <<" ", "-", "1", "\n">>

\* nlay internal blocks from block k on, block k holding the values
\* (k - 1) * n + 1 .. k * n, per values on a line
RECURSIVE BlocksFrom(_, _, _, _)
BlocksFrom(k, nlay, n, per) ==
    IF k > nlay THEN <<>>
    ELSE InternalRecord \o JoinLines(LinesOf((k - 1) * n + 1, k * n, per, FALSE))
         \o BlocksFrom(k + 1, nlay, n, per)

\* the loop of Util3d.load over the layers from k (from 0) on:
\* [ok, u2ds, heap, rest]
RECURSIVE LoadLayers(_, _, _, _, _, _, _, _)
LoadLayers(k, stream, md, shape, dtype, name, hp, files) ==
    IF k >= shape[1] THEN [ok |-> TRUE, u2ds |-> <<>>, heap |-> hp, rest |-> stream]
    ELSE With(Util2d_load(stream, md, <<shape[2], shape[3]>>, dtype, name, None, <<>>,
                          hp, files), LAMBDA g :
        IF ~g.ok THEN [ok |-> FALSE, u2ds |-> <<>>, heap |-> hp, rest |-> g.rest]
        ELSE With(LoadLayers(k + 1, g.rest, md, shape, dtype, name, g.heap, files),
                  LAMBDA r :
                 IF ~r.ok THEN r ELSE [r EXCEPT !.u2ds = <<g.u>> \o r.u2ds]))

\* Util3d.load(f_handle, model, shape, dtype, name): the layers are loaded
\* one after the other off the stream and Util3d is built of the list of
\* them, which build_2d_instances keeps as they are: [ok, t, heap, rest]
Util3d_load(stream, md, shape, dtype, name, hp, files) ==
    With(LoadLayers(0, stream, md, shape, dtype, name, hp, files), LAMBDA r :
        [ok |-> r.ok /\ Len(shape) = 3,
         t |-> [made |-> TRUE, shape |-> shape, dtype |-> dtype,
                name_base |-> LayerNameBase(name), fmtin |-> None, locat |-> None,
                util_2ds |-> r.u2ds],
         heap |-> r.heap, rest |-> r.rest])

\* u3d = Util3d.load(f, m, (nlay, nrow, ncol), dtype, name) on a stream of
\* nlay internal blocks and the line that follows them
Load3d(nlay, per, dtype) ==
    /\ res = None
    /\ ~u3d.made
    /\ \E r \in {Util3d_load(BlocksFrom(1, nlay, NRow * NCol, per) \o EndLine, m,
                             <<nlay, NRow, NCol>>, dtype, GridName, heap, fs)} :
           /\ res' = Some([op |-> "load3d", nlay |-> nlay, per |-> per, ok |-> r.ok,
                           layers |-> IF r.ok THEN Util3d_array(r.t, r.heap, fs).data
                                      ELSE <<>>,
                           rest |-> r.rest])
           /\ heap' = r.heap
           /\ u3d' = IF r.ok
                     THEN [made |-> TRUE, obj |-> r.t, value |-> OtherArg, touched |-> {}]
                     ELSE NoU3d
    /\ UNCHANGED <<m, fs, u, arr, entry, w, entry2, t2d>>

NextStream ==
    \/ \E nrow \in 1..NRow, ncol \in 1..(NCol + 1), per \in 1..MaxNpl, extra \in 0..MaxExtra,
          dtype \in {"int", "float32"}, fixed \in BOOLEAN :
          LoadStream(nrow, ncol, per, extra, dtype, fixed)
    \/ \E nlay \in 1..MaxLay, per \in 1..MaxNpl, dtype \in {"int", "float32"} :
          Load3d(nlay, per, dtype)

SpecStream == Init /\ [][NextStream]_vars

\* the number of lines load_txt reads for n values, per values on a line
LinesRead(n, per) == (n + per - 1) \div per

\* C24: load_txt for shape (nrow, ncol) returns the first nrow * ncol values
\* of the stream in row-major order and leaves the stream after the line
\* that holds the last of them, every later line unread; Util3d.load on a
\* stream of nlay internal blocks reads block k into layer k and leaves the
\* stream after the last block.
C24_StopsAtElementCount ==
    /\ Called("load_stream") =>
           \A x \in {Get(res)} :
               /\ x.r.ok
               /\ \A i \in 1..x.nrow : \A j \in 1..x.ncol :
                      x.r.data[i][j] = R(StreamValue((i - 1) * x.ncol + j))
               /\ x.r.rest
                      = JoinLines(LinesOf(LinesRead(x.nrow * x.ncol, x.per) * x.per + 1,
                                          x.nrow * x.ncol + x.extra, x.per, x.fixed))
    /\ Called("load3d") =>
           \A x \in {Get(res)} :
               /\ x.ok
               /\ Len(x.layers) = x.nlay
               /\ \A k \in 1..x.nlay : \A i \in 1..NRow : \A j \in 1..NCol :
                      x.layers[k][i][j]
                          = R(StreamValue((k - 1) * NRow * NCol + (i - 1) * NCol + j))
               /\ x.rest = EndLine

\* C24 witness: load_txt filled a 2 x 2 array from lines of three values and
\* left two whole lines unread
C24_Witness ==
    /\ Called("load_stream")
    /\ Get(res).r.ok
    /\ Get(res).nrow = 2 /\ Get(res).ncol = 2 /\ Get(res).per = 3
    /\ Get(res).extra = MaxExtra
    /\ Len(SplitOn(Get(res).r.rest, "\n")) >= 2
    /\ Get(res).r.rest # <<>>

\* C24 witness: Util3d.load read three blocks into three layers
C24_WitnessBlocks ==
    /\ Called("load3d")
    /\ Get(res).ok
    /\ Get(res).nlay = MaxLay
    /\ Get(res).layers[MaxLay][NRow][NCol] = R(StreamValue(MaxLay * NRow * NCol))
    /\ Get(res).rest = EndLine

----------------------------------------------------------------------------
(* Util2d.array2string: items per line                                     *)

\* the most columns of an array that is written
MaxCol == 4

\* the array of the shape whose elements count up from first in row-major
\* order
RampFrom(nrow, ncol, first) ==
    [i \in 1..nrow |-> [j \in 1..ncol |-> R(first + (i - 1) * ncol + j - 1)]]

\* the pattern of the dtype with n items per line and the width
WrapFormat(n, dtype, width) ==
    IF dtype = "int" THEN [npl |-> n, code |-> "I", width |-> width, decimal |-> None]
    ELSE [npl |-> n, code |-> "F", width |-> width, decimal |-> Some(1)]

\* s = Util2d.array2string(shape, data, python_format=(n, pattern)) and
\* back = Util2d.load_txt(shape, s, dtype, the descriptor of the pattern)
WriteWrapped(nrow, ncol, n, dtype, width, first) ==
    /\ res = None
    /\ \E r \in {array2string(<<nrow, ncol>>, RampFrom(nrow, ncol, first), dtype,
                              WrapFormat(n, dtype, width))} :
           res' = Some([op |-> "array2string", nrow |-> nrow, ncol |-> ncol, n |-> n,
                        dtype |-> dtype, width |-> width, first |-> first, ok |-> r.ok,
                        text |-> r.text,
                        back |-> load_txt(<<nrow, ncol>>, r.text, dtype,
                                          ColumnDescriptor(Some(n),
                                                           WrapFormat(n, dtype, width).code,
                                                           width,
                                                           WrapFormat(n, dtype, width)
                                                               .decimal))])
    /\ UNCHANGED <<m, heap, fs, u, arr, entry, w, entry2, t2d, u3d>>

NextWrap ==
    \E nrow \in 1..NRow, ncol \in 1..MaxCol, dtype \in {"int", "float32"},
       width \in {5, 6, 8}, first \in {1, 11} :
        \E n \in 1..ncol : WriteWrapped(nrow, ncol, n, dtype, width, first)

SpecWrap == Init /\ [][NextWrap]_vars

\* the number of output lines of one row of ncol values, n on a line
LinesPerRow(ncol, n) == (ncol + n - 1) \div n

\* C25: for every shape (nrow, ncol) and every n in 1..ncol, array2string
\* starts every row on a new line, puts at most n values on a line and ends
\* every row with exactly one line break, so that load_txt with the same
\* descriptor returns the same values.
C25_WrapsEveryNpl ==
    Called("array2string") =>
        \A x \in {Get(res)} :
        \A parts \in {SplitOn(x.text, "\n")} :
            /\ x.ok
            /\ Len(parts) = x.nrow * LinesPerRow(x.ncol, x.n) + 1
            /\ parts[Len(parts)] = <<>>
            /\ \A l \in 1..(Len(parts) - 1) :
                   Len(parts[l])
                       = x.width * (IF l % LinesPerRow(x.ncol, x.n) = 0
                                       /\ x.ncol % x.n # 0
                                    THEN x.ncol % x.n ELSE x.n)
            /\ x.back.ok
            /\ x.back.data = RampFrom(x.nrow, x.ncol, x.first)

----------------------------------------------------------------------------
(* Util2d.__init__ with a descriptor                                       *)

\* u = Util2d(m, shape, dtype, 5, name, fmtin=fmtin), or the exception it
\* raises; parsed is ArrayFormat(u, fortran=fmtin) alone
ConstructWithFmtin(dtype, fmtin) ==
    /\ u.vtype = ""
    /\ res = None
    /\ \E r \in {Util2d__init__(m, [U2dArgs(Shape2d, dtype, ScalarArg("int", R(5)),
                                            GridName)
                                     EXCEPT !.fmtin = Some(fmtin)], heap, fs)} :
           /\ res' = Some([op |-> "init_fmtin", ok |-> r.ok, dtype |-> dtype,
                           fmtin |-> fmtin,
                           parsed |-> ArrayFormat__init__(Shape2d, dtype, Some(fmtin))])
           /\ u' = IF r.ok THEN r.u ELSE u
           /\ heap' = r.heap
    /\ UNCHANGED <<m, fs, arr, entry, w, entry2, t2d, u3d>>

NextKeep ==
    \/ \E dtype \in {"int", "float32"}, n \in NplArgs, code \in CodeArgs,
          width \in WidthArgs, d \in DecimalArgs :
          ConstructWithFmtin(dtype, ColumnDescriptor(n, code, width, d))
    \/ \E dtype \in {"int", "float32"}, fmtin \in ModeTexts :
          ConstructWithFmtin(dtype, fmtin)

SpecKeep == Init /\ [][NextKeep]_vars

\* C26: a grid built with an accepted descriptor D and bin = False has the
\* items per line, code, width, decimal and free/binary flags that parsing
\* D gives: (5F12.4) gives 5, F, 12 and 4, and (BINARY) a binary format.
C26_DescriptorKept ==
    Called("init_fmtin") =>
        \A x \in {Get(res)} :
            x.parsed.ok =>
                /\ x.ok
                /\ u.format = x.parsed.af
                /\ x.fmtin = ColumnDescriptor(Some(5), "F", 12, Some(4)) =>
                       /\ u.format.npl = 5
                       /\ u.format.format = "F"
                       /\ u.format.width = 12
                       /\ u.format.decimal = Some(4)
                /\ x.fmtin = Parens(BinaryWord) => u.format.isbinary

----------------------------------------------------------------------------
(* get_file_entry of a file-backed grid, the value naming the target       *)

\* the file a.dat of the workspace, written ./a.dat
DotDataFile == <<".", "/">> \o DataFile

\* two spellings of the one existing file
SourceArgs == {StrArg(DataFile), StrArg(DotDataFile)}

NextSrc ==
    \/ \E dtype \in {"int", "float32"}, value \in SourceArgs, bin \in BOOLEAN,
          how \in HowArgs :
          Construct(dtype, value, bin, how)
    \/ \E how \in HowArgs : RenderExt(how)

SpecSrc == InitExt /\ [][NextSrc]_vars

\* C27: after get_file_entry renders a file-backed grid as external or
\* openclose, or fails to, the file its value names is still there with the
\* content it had, also when the value spells the target path differently
\* (./a.dat for a.dat in the workspace).
C27_SourceSurvives ==
    Called("render") =>
        \A x \in {Get(res)} :
            /\ x.u0.vtype = "str"
            /\ ResolveHow(x.u0, x.m0, x.how) \in {"external", "openclose"}
            /\ Exists(x.fs0, x.u0.path)
            => /\ Exists(fs, x.u0.path)
               /\ fs[NormPath(x.u0.path)] = x.fs0[NormPath(x.u0.path)]

----------------------------------------------------------------------------
(* parse_control_record on a fixed-width constant record                   *)

\* C28: a fixed-width record with locat = 0 and the number x in columns
\* 10-20 is read as a constant record of value exactly x, for float and for
\* integer dtype, x = 0 included.
C28_ConstantValueAsWritten ==
    Called("parse_fixed") /\ Get(res).locat = 0 =>
        /\ Get(res).r.ok
        /\ Get(res).r.type = "constant"
        /\ Get(res).r.cnstnt = Some(Get(res).cnstnt)

----------------------------------------------------------------------------
(* Util3d and Transient2d built with a multiplier                          *)

\* the multipliers a composite is built with
CompositeCnstnt == {R(1)} \cup ScalingArgs

\* the _array of every grid of a list, each times c and cast to dtype
RECURSIVE RawTimes(_, _, _, _, _)
RawTimes(grids, c, dtype, hp, files) ==
    IF grids = <<>> THEN <<>>
    ELSE <<AsType(dtype, Times(Util2d__array(Head(grids), hp, files).data, c))>>
         \o RawTimes(Tail(grids), c, dtype, hp, files)

\* u3d = Util3d(m, (nlay, nrow, ncol), dtype, value, name, cnstnt=c);
\* a = u3d.array.  __init__ keeps c as the attribute cnstnt of the composite
\* and build_2d_instances gives Util2d the value, fmtin, name, ext_filename
\* and locat only
NewUtil3dTimes(nlay, dtype, value, c) ==
    /\ ~u3d.made
    /\ res = None
    /\ \E r \in {Util3d__init__(m, <<nlay, NRow, NCol>>, dtype, value, GridName, heap,
                                fs)} :
       \E a \in {Util3d_array(r.t, r.heap, fs)} :
           /\ res' = Some([op |-> "init_times", of |-> "Util3d", cnstnt |-> c,
                           dtype |-> dtype, ok |-> r.ok /\ a.ok,
                           grids |-> IF r.ok THEN r.t.util_2ds ELSE <<>>,
                           array |-> a.data])
           /\ u3d' = IF r.ok /\ a.ok
                     THEN [made |-> TRUE, obj |-> a.t, value |-> value, touched |-> {}]
                     ELSE NoU3d
           /\ heap' = r.heap
    /\ UNCHANGED <<m, fs, u, arr, entry, w, entry2, t2d>>

\* t2d = Transient2d(m, shape, dtype, value, name, cnstnt=c); a = t2d.array.
\* __init__ keeps c as the attribute cnstst and __get_2d_instance gives
\* Util2d the value, fmtin, name, ext_filename and locat only; grids holds
\* the grid of every period of the array
NewTransient2dTimes(dtype, value, c) ==
    /\ ~t2d.made
    /\ res = None
    /\ \E r \in {Transient2d__init__(m, Shape2d, dtype, value, T2dName, heap, fs)} :
       \E a \in {Transient2d_array(r.t, m, r.heap, fs)} :
           /\ res' = Some([op |-> "init_times", of |-> "Transient2d", cnstnt |-> c,
                           dtype |-> dtype, ok |-> r.ok /\ a.ok,
                           grids |-> IF r.ok /\ a.ok
                                     THEN [k \in 1..m.nper |-> r.t.seq[0]] ELSE <<>>,
                           array |-> a.data])
           /\ t2d' = IF r.ok /\ a.ok THEN a.t ELSE NoT2d
           /\ heap' = r.heap
           /\ m' = a.m
           /\ fs' = a.fs
    /\ UNCHANGED <<u, arr, entry, w, entry2, u3d>>

NextTimes ==
    \/ \E nlay \in 1..MaxLay, dtype \in {"int", "float32"}, value \in ValueArgs,
          c \in CompositeCnstnt :
          NewUtil3dTimes(nlay, dtype, value, c)
    \/ \E dtype \in {"int", "float32"}, value \in ValueArgs, c \in CompositeCnstnt :
          NewTransient2dTimes(dtype, value, c)

SpecTimes == Init /\ [][NextTimes]_vars

\* C29: every grid of a Util3d or Transient2d built with multiplier c has
\* multiplier c, and the array of the composite is the raw values of its
\* layers or periods times c.
C29_CompositeMultiplier ==
    Called("init_times") /\ Get(res).ok =>
        \A x \in {Get(res)} :
            /\ \A i \in 1..Len(x.grids) : x.grids[i].cnstnt = x.cnstnt
            /\ x.array = RawTimes(x.grids, x.cnstnt, x.dtype, heap, fs)

----------------------------------------------------------------------------
(* parse_control_record: which lines are read as free-form                 *)

\* the four keywords of a free-form record, in lower case
FreeKeywords == {Lower(KwConstant), Lower(KwInternal), Lower(KwExternal),
                 Lower(KwOpenClose)}

\* first tokens: the keywords in upper and lower case, parts of a keyword,
\* a quote, locat numbers, and a word that is part of none
FirstTokens ==
    {KwConstant, KwInternal, KwExternal, KwOpenClose} \cup FreeKeywords
    \cup {<<"o", "p", "e", "n">>, <<"C", "O", "N", "S", "T">>, <<"e">>, <<"'">>,
          <<"0">>, <<"7">>, <<"1", "2">>, <<"-", "1", "2">>, <<"w", "w">>}

\* a record line of the first token, a unit or file name where the keyword
\* takes one, a multiplier, a descriptor and a print flag; a number is
\* right-justified in columns 0-10 as a fixed-width record has it
RecordLine(first, mult, fmtin) ==
    IF ParseInt(first).ok THEN FixedLine(ParseInt(first).v[1], mult, fmtin, <<"3">>)
    ELSE first \o <<" ">>
         \o (IF Lower(first) = Lower(KwExternal) THEN <<"1", "2", " ">>
             ELSE IF Lower(first) = Lower(KwOpenClose) THEN DataFile \o <<" ">>
             ELSE <<>>)
         \o mult \o <<" ">> \o fmtin \o <<" ">> \o <<"3">> \o <<"\n">>

\* r = Util2d.parse_control_record(line, current_unit, dtype), or the
\* exception it raises
ParseLine(first, mult, fmtin, current_unit, dtype) ==
    /\ res = None
    /\ \E line \in {RecordLine(first, mult[1], fmtin)} :
           res' = Some([op |-> "parse_line", first |-> first, line |-> line,
                        dtype |-> dtype, current_unit |-> current_unit,
                        r |-> parse_control_record(line, current_unit, dtype, <<>>,
                                                   None)])
    /\ UNCHANGED <<m, heap, fs, u, arr, entry, w, entry2, t2d, u3d>>

NextKw ==
    \E first \in FirstTokens, dtype \in {"int", "float32"},
       fmtin \in {ColumnDescriptor(Some(2), "I", 5, None), Parens(FreeWord)},
       current_unit \in {None, Some(PackageUnit)} :
        \E mult \in MultiplierArgs(dtype) :
            ParseLine(first, mult, fmtin, current_unit, dtype)

SpecKw == Init /\ [][NextKw]_vars

\* C30: a record parse_control_record returns has one of the types
\* constant, internal, external and open/close; a line is read as free-form
\* only when its first token is one of the four keywords in any case, and
\* any other line is read as a fixed-width header.
C30_TypeIsOneOfFour ==
    Called("parse_line") =>
        \A x \in {Get(res)} :
            /\ x.r.ok => x.r.type \in {"constant", "internal", "external", "open/close"}
            /\ Lower(x.first) \notin FreeKeywords =>
                   x.r = ParseFixedRecord(x.line, x.current_unit, x.dtype = "float32",
                                          None)

====
